---- MODULE Spec2Model ----
(***************************************************************************)
(* BIKA Calculator Bot (src/index.js): the expression evaluator safeEval   *)
(* and the per-chat calculator session driven by the inline keypad.        *)
(*                                                                         *)
(* A JavaScript string is modelled as a sequence of characters, each       *)
(* character a one-character TLA+ string. The fixed message literals of    *)
(* the source ("Invalid characters." ...) are never inspected character by *)
(* character by the program, so each of them is kept as one element.       *)
(***************************************************************************)
EXTENDS Integers, Sequences, FiniteSets, TLC

\* ------------------------------------------------------------------ bounds
\* Longest text handed to safeEval by the evaluator specification.
MaxLen == 4

\* Updates (commands and button presses) delivered to the bot in one run.
MaxEvents == 4

\* Transport calls (sendMessage, editMessageText) that fail in one run.
MaxFailures == 2

\* ------------------------------------------------------------- characters
Digit == {"0", "1", "2", "3", "4", "5", "6", "7", "8", "9"}

\* The white space of String.prototype.trim and of \s that is writable here.
WhiteSpace == {" ", "\t", "\n", "\r", "\f"}

UpperLetters ==
  <<"A","B","C","D","E","F","G","H","I","J","K","L","M",
    "N","O","P","Q","R","S","T","U","V","W","X","Y","Z">>

LowerLetters ==
  <<"a","b","c","d","e","f","g","h","i","j","k","l","m",
    "n","o","p","q","r","s","t","u","v","w","x","y","z">>

FoldTable == [c \in {UpperLetters[k] : k \in 1..26} |->
                LowerLetters[CHOOSE k \in 1..26 : UpperLetters[k] = c]]

\* Case folding of the /i flag on the letters A-Z.
Lower(c) == IF c \in DOMAIN FoldTable THEN FoldTable[c] ELSE c

LowerText(s) == [k \in 1..Len(s) |-> Lower(s[k])]

\* ------------------------------------------------------- safeEval, step 1
RECURSIVE TrimLeft(_)
TrimLeft(s) ==
  IF s # <<>> /\ Head(s) \in WhiteSpace THEN TrimLeft(Tail(s)) ELSE s

RECURSIVE TrimRight(_)
TrimRight(s) ==
  IF s # <<>> /\ s[Len(s)] \in WhiteSpace
    THEN TrimRight(SubSeq(s, 1, Len(s) - 1))
    ELSE s

\* String(expr || "").trim()
Trim(s) == TrimRight(TrimLeft(s))

\* A character outside ASCII is written as the name of its code point.
MulSign == "U+00D7"
DivSign == "U+00F7"
EmDash == "U+2014"
EnDash == "U+2013"
MinusSign == "U+2212"

\* The replacements without the one of the minus sign.
ReplaceCharKeepsMinus(c) ==
  CASE c = MulSign -> <<"*">>
    [] c = DivSign -> <<"/">>
    [] c = EmDash -> <<"-">>
    [] c = "," -> <<>>
    [] OTHER -> <<c>>

\* The five .replace(/x/g, y) calls: multiplication sign, division sign,
\* em dash and minus sign are rewritten, commas are deleted.
ReplaceChar(c) ==
  CASE c = MulSign -> <<"*">>
    [] c = DivSign -> <<"/">>
    [] c = EmDash -> <<"-">>
    [] c = MinusSign -> <<"-">>
    [] c = "," -> <<>>
    [] OTHER -> <<c>>

RECURSIVE ReplaceAll(_)
ReplaceAll(s) ==
  IF s = <<>> THEN <<>> ELSE ReplaceChar(Head(s)) \o ReplaceAll(Tail(s))

Normalize(expr) == ReplaceAll(Trim(expr))

\* ------------------------------------------------------- safeEval, step 2
\* The identifiers of the regular expression `blocked`.
BlockedWords ==
  { <<"i","m","p","o","r","t">>,
    <<"c","r","e","a","t","e","U","n","i","t">>,
    <<"e","v","a","l","u","a","t","e">>,
    <<"p","a","r","s","e">>,
    <<"s","i","m","p","l","i","f","y">>,
    <<"d","e","r","i","v","a","t","i","v","e">>,
    <<"c","o","m","p","i","l","e">>,
    <<"h","e","l","p">>,
    <<"u","n","i","t">>,
    <<"f","o","r","m","a","t">>,
    <<"t","y","p","e","d">>,
    <<"r","e","v","i","v","e","r">>,
    <<"j","s","o","n">>,
    <<"c","h","a","i","n">>,
    <<"m","a","t","r","i","x">>,
    <<"o","n","e","s">>,
    <<"z","e","r","o","s">>,
    <<"r","a","n","g","e">>,
    <<"i","n","d","e","x">>,
    <<"s","u","b","s","e","t">>,
    <<"c","o","n","c","a","t">>,
    <<"r","e","s","i","z","e">> }

\* w occurs in s at position i, letters compared without regard to case.
MatchesAtCI(s, w, i) ==
  /\ i + Len(w) - 1 <= Len(s)
  /\ \A k \in 1..Len(w) : Lower(s[i + k - 1]) = Lower(w[k])

\* w occurs in s at position i, letter for letter.
MatchesAtExact(s, w, i) ==
  /\ i + Len(w) - 1 <= Len(s)
  /\ \A k \in 1..Len(w) : s[i + k - 1] = w[k]

\* blocked.test(s) without the i flag.
BlockedTestCaseSensitive(s) ==
  \E w \in BlockedWords : \E i \in 1..Len(s) : MatchesAtExact(s, w, i)

\* blocked.test(s)
BlockedTest(s) ==
  \E w \in BlockedWords : \E i \in 1..Len(s) : MatchesAtCI(s, w, i)

\* ------------------------------------------------------- safeEval, step 3
\* The character class of the regular expression `allowed`.
AllowedChars ==
  Digit \cup {"+", "-", "*", "/", "(", ")", ".", "^", "%"}
        \cup WhiteSpace \cup {"p", "i", "e", "P", "I", "E"}

\* The class tested without its anchors ^ and $: the starred class matches
\* the empty text at the start of any s.
AllowedTestUnanchored(s) == Len(s) >= 0

\* allowed.test(s): the class is anchored at both ends and starred.
AllowedTest(s) == \A k \in 1..Len(s) : s[k] \in AllowedChars

\* ------------------------------------------------ the numbers of the engine
\* math is created with { number: "number" }: every value is an IEEE double.
\* A double is modelled as the exact fraction sgn * num / den with num >= 0
\* and den >= 0 in lowest terms; den = 0 encodes the non-finite values:
\* num = 1 is Infinity of sign sgn, num = 0 is NaN. Zero keeps its sign.
RECURSIVE Gcd(_, _)
Gcd(a, b) == IF b = 0 THEN a ELSE Gcd(b, a % b)

NaN == [sgn |-> 1, num |-> 0, den |-> 0]

MkNum(s, n, d) ==
  IF n = 0 /\ d = 0 THEN NaN
  ELSE IF d = 0 THEN [sgn |-> s, num |-> 1, den |-> 0]
  ELSE IF n = 0 THEN [sgn |-> s, num |-> 0, den |-> 1]
  ELSE LET g == Gcd(n, d) IN [sgn |-> s, num |-> n \div g, den |-> d \div g]

IsNaN(a) == a.num = 0 /\ a.den = 0
IsInf(a) == a.num # 0 /\ a.den = 0
IsZero(a) == a.num = 0 /\ a.den # 0

\* !isNaN(result) in the place of isFinite(result).
IsFiniteOnlyNaN(a) == ~IsNaN(a)

\* isFinite(result)
IsFinite(a) == a.den # 0

Abs(x) == IF x < 0 THEN -x ELSE x

unaryMinus(a) == IF IsNaN(a) THEN NaN ELSE [a EXCEPT !.sgn = -a.sgn]

add(a, b) ==
  IF IsNaN(a) \/ IsNaN(b) THEN NaN
  ELSE IF IsInf(a) /\ IsInf(b) THEN (IF a.sgn = b.sgn THEN a ELSE NaN)
  ELSE IF IsInf(a) THEN a
  ELSE IF IsInf(b) THEN b
  ELSE IF IsZero(a) /\ IsZero(b)
    THEN [sgn |-> IF a.sgn = -1 /\ b.sgn = -1 THEN -1 ELSE 1, num |-> 0, den |-> 1]
  ELSE LET x == a.sgn * a.num * b.den + b.sgn * b.num * a.den
       IN MkNum(IF x < 0 THEN -1 ELSE 1, Abs(x), a.den * b.den)

subtract(a, b) == add(a, unaryMinus(b))

multiply(a, b) ==
  IF IsNaN(a) \/ IsNaN(b) THEN NaN
  ELSE MkNum(a.sgn * b.sgn, a.num * b.num, a.den * b.den)

divide(a, b) ==
  IF IsNaN(a) \/ IsNaN(b) THEN NaN
  ELSE MkNum(a.sgn * b.sgn, a.num * b.den, a.den * b.num)

\* ---------------------------------------------------- the engine's tokens
\* math.evaluate(s) is the expression parser of the mathjs library. It is
\* modelled on the characters of EngineChars: decimal numbers, + - * /,
\* parentheses and blanks. The texts given to the engine stay inside them.
EngineChars == Digit \cup {".", "+", "-", "*", "/", "(", ")", " ", "\t"}

\* currentCharacter: the empty string past the end of the text.
At(s, i) == IF i >= 1 /\ i <= Len(s) THEN s[i] ELSE ""

RECURSIVE SkipDigits(_, _)
SkipDigits(s, i) == IF At(s, i) \in Digit THEN SkipDigits(s, i + 1) ELSE i

RECURSIVE SkipBlanks(_, _)
SkipBlanks(s, i) == IF At(s, i) \in {" ", "\t"} THEN SkipBlanks(s, i + 1) ELSE i

\* parse.isDecimalMark
IsDecimalMark(c, cNext) == c = "." /\ cNext \notin {"/", "*", "^"}

DigitVal(c) ==
  CASE c = "0" -> 0 [] c = "1" -> 1 [] c = "2" -> 2 [] c = "3" -> 3
    [] c = "4" -> 4 [] c = "5" -> 5 [] c = "6" -> 6 [] c = "7" -> 7
    [] c = "8" -> 8 [] c = "9" -> 9

RECURSIVE Pow10(_)
Pow10(k) == IF k = 0 THEN 1 ELSE 10 * Pow10(k - 1)

\* The integer written by the digits of s in i..j-1 (0 when there are none).
RECURSIVE DigitsVal(_, _, _)
DigitsVal(s, i, j) ==
  IF i >= j THEN 0 ELSE DigitsVal(s, i, j - 1) * 10 + DigitVal(s[j - 1])

\* The end of the number token that starts at i.
NumberEnd(s, i) ==
  IF s[i] = "." THEN SkipDigits(s, i + 1)
  ELSE LET j == SkipDigits(s, i)
       IN IF IsDecimalMark(At(s, j), At(s, j + 1))
            THEN SkipDigits(s, j + 1)
            ELSE j

\* Number(token) of the number token s[i..j-1]: digits, at most one dot.
NumberVal(s, i, j) ==
  LET dot == IF \E k \in i..(j - 1) : s[k] = "."
               THEN CHOOSE k \in i..(j - 1) : s[k] = "."
               ELSE j
      frac == j - 1 - dot
  IN MkNum(1,
           DigitsVal(s, i, dot) * Pow10(IF frac > 0 THEN frac ELSE 0)
             + DigitsVal(s, dot + 1, j),
           Pow10(IF frac > 0 THEN frac ELSE 0))

ErrTok == [t |-> "err"]

\* getToken, repeated to the end of the text: the sequence of tokens from
\* position i on, or <<ErrTok>> where the tokenizer throws or leaves a lone
\* dot, which no rule of the grammar on these characters accepts.
RECURSIVE Tokens(_, _)
Tokens(s, i) ==
  LET j == SkipBlanks(s, i)
      c == At(s, j)
      c2 == <<At(s, j), At(s, j + 1)>>
      Rest(tok, k) ==
        LET r == Tokens(s, k)
        IN IF r # <<>> /\ r[Len(r)] = ErrTok THEN <<ErrTok>> ELSE <<tok>> \o r
  IN IF c = "" THEN <<>>
     ELSE IF c2 = <<".", "*">> THEN Rest([t |-> "op", v |-> "*"], j + 2)
     ELSE IF c2 = <<".", "/">> THEN Rest([t |-> "op", v |-> "/"], j + 2)
     ELSE IF c \in {"+", "-", "*", "/", "(", ")"}
       THEN Rest([t |-> "op", v |-> c], j + 1)
     ELSE IF c \in Digit \/ (c = "." /\ At(s, j + 1) \in Digit)
       THEN LET e == NumberEnd(s, j)
            IN Rest([t |-> "num", v |-> NumberVal(s, j, e)], e)
     ELSE <<ErrTok>>

\* ---------------------------------------------------- the engine's parser
\* The recursive descent of mathjs, restricted to the tokens above, in its
\* order of precedence: parseAddSubtract, parseMultiplyDivide,
\* parseImplicitMultiplication, parseRule2, parseUnary, then numbers and
\* parentheses. A node is [ok, v, k, p]: ok is FALSE where the parser throws,
\* v is the value the node evaluates to, p the position of the next token,
\* and k the kind of the node, which the implicit-multiplication rules read:
\*   "const"  ConstantNode          "uconst" unary + or - of a ConstantNode
\*   "paren"  ParenthesisNode       "op"     any other OperatorNode
Fail == [ok |-> FALSE, v |-> NaN, k |-> "op", p |-> 0]

Node(v, k, p) == [ok |-> TRUE, v |-> v, k |-> k, p |-> p]

TokAt(toks, p) == IF p <= Len(toks) THEN toks[p] ELSE [t |-> "end"]

IsOp(tok, o) == tok.t = "op" /\ tok.v = o

RECURSIVE parseAddSubtract(_, _), AddSubtractLoop(_, _),
          parseMultiplyDivide(_, _), MultiplyDivideLoop(_, _),
          parseImplicitMultiplication(_, _), ImplicitLoop(_, _, _),
          parseRule2(_, _), Rule2Loop(_, _, _),
          parseUnary(_, _), parseParentheses(_, _)

\* The closing parenthesis after the inner expression.
CloseParentheses(toks, inner) ==
  IF inner.ok /\ IsOp(TokAt(toks, inner.p), ")")
    THEN Node(inner.v, "paren", inner.p + 1)
    ELSE Fail

\* parseNumber, parseParentheses, parseEnd
parseParentheses(toks, p) ==
  IF TokAt(toks, p).t = "num" THEN Node(TokAt(toks, p).v, "const", p + 1)
  ELSE IF IsOp(TokAt(toks, p), "(")
    THEN CloseParentheses(toks, parseAddSubtract(toks, p + 1))
  ELSE Fail

\* OperatorNode(name, fn, [r]) of a unary sign.
UnaryNode(tok, r) ==
  IF ~r.ok THEN Fail
  ELSE Node(IF tok.v = "-" THEN unaryMinus(r.v) ELSE r.v,
            IF r.k = "const" THEN "uconst" ELSE "op",
            r.p)

parseUnary(toks, p) ==
  IF IsOp(TokAt(toks, p), "-") \/ IsOp(TokAt(toks, p), "+")
    THEN UnaryNode(TokAt(toks, p), parseUnary(toks, p + 1))
    ELSE parseParentheses(toks, p)

\* OperatorNode of a binary operator; an operand that failed fails the node.
BinaryNode(o, node, r) ==
  IF ~r.ok THEN Fail
  ELSE Node(CASE o = "+" -> add(node.v, r.v)
              [] o = "-" -> subtract(node.v, r.v)
              [] o = "*" -> multiply(node.v, r.v)
              [] o = "/" -> divide(node.v, r.v),
            "op", r.p)

\* rule2Node(last) and the look-ahead "/ number (" of parseRule2.
Rule2Matches(toks, node, last) ==
  /\ IsOp(TokAt(toks, node.p), "/")
  /\ last.k \in {"const", "uconst"}
  /\ TokAt(toks, node.p + 1).t = "num"
  /\ IsOp(TokAt(toks, node.p + 2), "(")

Rule2Divide(toks, node, r) == Rule2Loop(toks, BinaryNode("/", node, r), r)

\* "number / number (" divides first.
Rule2Loop(toks, node, last) ==
  IF Rule2Matches(toks, node, last)
    THEN Rule2Divide(toks, node, parseUnary(toks, node.p + 1))
    ELSE node

Rule2Start(toks, node) == IF node.ok THEN Rule2Loop(toks, node, node) ELSE Fail

parseRule2(toks, p) == Rule2Start(toks, parseUnary(toks, p))

ImplicitTimes(toks, node, r) ==
  IF r.ok THEN ImplicitLoop(toks, BinaryNode("*", node, r), r) ELSE Fail

\* A parenthesis after any node, or a number after a ParenthesisNode,
\* multiplies.
ImplicitLoop(toks, node, last) ==
  IF \/ TokAt(toks, node.p).t = "num" /\ last.k = "paren"
     \/ IsOp(TokAt(toks, node.p), "(")
    THEN ImplicitTimes(toks, node, parseRule2(toks, node.p))
    ELSE node

ImplicitStart(toks, node) ==
  IF node.ok THEN ImplicitLoop(toks, node, node) ELSE Fail

parseImplicitMultiplication(toks, p) == ImplicitStart(toks, parseRule2(toks, p))

MultiplyDivideNext(toks, o, node, r) ==
  IF r.ok THEN MultiplyDivideLoop(toks, BinaryNode(o, node, r)) ELSE Fail

MultiplyDivideLoop(toks, node) ==
  IF IsOp(TokAt(toks, node.p), "*") \/ IsOp(TokAt(toks, node.p), "/")
    THEN MultiplyDivideNext(toks, TokAt(toks, node.p).v, node,
                            parseImplicitMultiplication(toks, node.p + 1))
    ELSE node

MultiplyDivideStart(toks, node) ==
  IF node.ok THEN MultiplyDivideLoop(toks, node) ELSE Fail

parseMultiplyDivide(toks, p) ==
  MultiplyDivideStart(toks, parseImplicitMultiplication(toks, p))

AddSubtractNext(toks, o, node, r) ==
  IF r.ok THEN AddSubtractLoop(toks, BinaryNode(o, node, r)) ELSE Fail

AddSubtractLoop(toks, node) ==
  IF IsOp(TokAt(toks, node.p), "+") \/ IsOp(TokAt(toks, node.p), "-")
    THEN AddSubtractNext(toks, TokAt(toks, node.p).v, node,
                         parseMultiplyDivide(toks, node.p + 1))
    ELSE node

AddSubtractStart(toks, node) ==
  IF node.ok THEN AddSubtractLoop(toks, node) ELSE Fail

parseAddSubtract(toks, p) == AddSubtractStart(toks, parseMultiplyDivide(toks, p))

\* The whole text must be one expression.
WholeExpression(toks, r) ==
  IF r.ok /\ r.p = Len(toks) + 1
    THEN [type |-> "number", v |-> r.v]
    ELSE [type |-> "throw"]

EvaluateTokens(toks) ==
  IF toks # <<>> /\ toks[Len(toks)] = ErrTok THEN [type |-> "throw"]
  ELSE IF toks = <<>> THEN [type |-> "undefined"]
  ELSE WholeExpression(toks, parseAddSubtract(toks, 1))

\* math.evaluate(s): a number, undefined for the empty expression (parseBlock
\* yields ConstantNode(undefined)), or a thrown syntax error.
MathEvaluate(s) == EvaluateTokens(Tokens(s, 1))

\* --------------------------------------------- safeEval, steps 5 and 6
\* Math.round((result + Number.EPSILON) * 1e12) / 1e12 keeps RoundDigits
\* decimal places.
RoundDigits == 12

DigitChar(d) ==
  CASE d = 0 -> "0" [] d = 1 -> "1" [] d = 2 -> "2" [] d = 3 -> "3"
    [] d = 4 -> "4" [] d = 5 -> "5" [] d = 6 -> "6" [] d = 7 -> "7"
    [] d = 8 -> "8" [] d = 9 -> "9"

RECURSIVE IntToText(_)
IntToText(n) ==
  IF n < 10 THEN <<DigitChar(n)>>
  ELSE IntToText(n \div 10) \o <<DigitChar(n % 10)>>

\* Long division of rem / den: the next k decimal digits and the remainder.
RECURSIVE FracDigits(_, _, _)
FracDigits(rem, den, k) ==
  IF k = 0 THEN [digits |-> <<>>, rem |-> rem]
  ELSE LET r == FracDigits((rem * 10) % den, den, k - 1)
       IN [digits |-> <<(rem * 10) \div den>> \o r.digits, rem |-> r.rem]

\* One unit added in the last place: the digits and the carry out of them.
RECURSIVE Increment(_)
Increment(ds) ==
  IF ds = <<>> THEN [digits |-> <<>>, carry |-> 1]
  ELSE LET n == Len(ds)
       IN IF ds[n] < 9
            THEN [digits |-> [ds EXCEPT ![n] = ds[n] + 1], carry |-> 0]
            ELSE LET r == Increment(SubSeq(ds, 1, n - 1))
                 IN [digits |-> r.digits \o <<0>>, carry |-> r.carry]

RECURSIVE StripZeros(_)
StripZeros(ds) ==
  IF ds # <<>> /\ ds[Len(ds)] = 0
    THEN StripZeros(SubSeq(ds, 1, Len(ds) - 1))
    ELSE ds

RECURSIVE LeadingZeros(_)
LeadingZeros(ds) ==
  IF ds # <<>> /\ Head(ds) = 0 THEN 1 + LeadingZeros(Tail(ds)) ELSE 0

DigitsText(ds) == [k \in 1..Len(ds) |-> DigitChar(ds[k])]

\* The finite double a rounded to RoundDigits places: Math.round rounds a
\* tie towards +Infinity. [neg, int, frac], frac without trailing zeros.
Rounded(a) ==
  LET q == FracDigits(a.num % a.den, a.den, RoundDigits)
      up == IF a.sgn = 1 THEN 2 * q.rem >= a.den ELSE 2 * q.rem > a.den
      inc == IF up THEN Increment(q.digits) ELSE [digits |-> q.digits, carry |-> 0]
      int == (a.num \div a.den) + inc.carry
      frac == StripZeros(inc.digits)
  IN [neg |-> a.sgn = -1 /\ (int # 0 \/ frac # <<>>), int |-> int, frac |-> frac]

\* String(rounded): Number::toString of the rounded value. A value below
\* 1e-6 in magnitude is written with an exponent.
NumberToText(r) ==
  LET z == LeadingZeros(r.frac)
      sig == SubSeq(r.frac, z + 1, Len(r.frac))
      body ==
        IF r.frac = <<>> THEN IntToText(r.int)
        ELSE IF r.int = 0 /\ z >= 6
          THEN <<DigitChar(Head(sig))>>
                 \o (IF Len(sig) > 1 THEN <<".">> \o DigitsText(Tail(sig)) ELSE <<>>)
                 \o <<"e", "-">> \o IntToText(z + 1)
        ELSE IntToText(r.int) \o <<".">> \o DigitsText(r.frac)
  IN (IF r.neg THEN <<"-">> ELSE <<>>) \o body

InfinityText == <<"I","n","f","i","n","i","t","y">>

\* String(x) of a double that went through the rounding line.
RoundedText(a) ==
  IF IsNaN(a) THEN <<"N","a","N">>
  ELSE IF IsInf(a) THEN (IF a.sgn = -1 THEN <<"-">> ELSE <<>>) \o InfinityText
  ELSE NumberToText(Rounded(a))

\* String(undefined)
UndefinedText == <<"u","n","d","e","f","i","n","e","d">>

\* The message of the error the engine throws; its wording belongs to the
\* library and is kept opaque.
EngineMessage == <<"mathjs:SyntaxError">>

Throw(msg, calls) == [throws |-> TRUE, message |-> msg, value |-> <<>>, engine |-> calls]

Return(text, calls) == [throws |-> FALSE, message |-> <<>>, value |-> text, engine |-> calls]

\* The number branch of safeEval: typeof result === "number".
NumberBranch(a, calls) ==
  IF ~IsFinite(a) THEN Throw(<<"Result is not finite.">>, calls)
  ELSE Return(RoundedText(a), calls)

\* What safeEval makes of the result of math.evaluate(s).
FromResult(result, s) ==
  IF result.type = "throw" THEN Throw(EngineMessage, <<s>>)
  ELSE IF result.type = "number" THEN NumberBranch(result.v, <<s>>)
  ELSE Return(UndefinedText, <<s>>)

\* The checks and the call of the engine on the normalized text s.
Checked(s) ==
  IF BlockedTest(s) THEN Throw(<<"Unsupported expression.">>, <<>>)
  ELSE IF ~AllowedTest(s) THEN Throw(<<"Invalid characters.">>, <<>>)
  ELSE FromResult(MathEvaluate(s), s)

\* safeEval(expr): what it throws or returns, and `engine`, the texts it
\* handed to math.evaluate.
safeEval(expr) == Checked(Normalize(expr))

\* ------------------------------------------------- the texts evaluated
\* Every text of at most n characters of A.
TextsOver(A, n) == UNION {[1..k -> A] : k \in 0..n}

\* Arithmetic: numbers, operators, parentheses and dots.
ArithChars == {"0", "1", "3", "-", "/", "(", ")", "."}

\* Letters that spell the blocked identifier "json" in either case, and the
\* comma.
WordChars == {"j", "s", "o", "n", "J", "N", ","}

\* The operator glyphs, the comma and the blank around a digit.
GlyphChars == {MulSign, DivSign, EmDash, MinusSign, EnDash, ",", " ", "2"}

Alphabets == {ArithChars, WordChars, GlyphChars}

Inputs == UNION {TextsOver(A, MaxLen) : A \in Alphabets}

\* ------------------------------------------------------------ the keypad
\* kb(): five rows of four buttons, each [text, data].
Button(text, key) == [text |-> text, data |-> <<"k", ":">> \o key]

kb ==
  << << Button("7", <<"7">>), Button("8", <<"8">>), Button("9", <<"9">>),
        Button(DivSign, <<"/">>) >>,
     << Button("4", <<"4">>), Button("5", <<"5">>), Button("6", <<"6">>),
        Button(MulSign, <<"*">>) >>,
     << Button("1", <<"1">>), Button("2", <<"2">>), Button("3", <<"3">>),
        Button("-", <<"-">>) >>,
     << Button("0", <<"0">>), Button(".", <<".">>), Button("(", <<"(">>),
        Button(")", <<")">>) >>,
     << Button("C", <<"C">>), Button("U+232B", <<"B", "S">>),
        Button("+", <<"+">>), Button("=", <<"=">>) >> >>

\* renderUI(expr, result): a blank stands for an empty field.
renderUI(expr, result) ==
  LET e == IF Len(expr) > 0 THEN expr ELSE <<" ">>
      r == IF Len(result) > 0 THEN result ELSE <<" ">>
  IN <<"U+1F9EE BIKA Calculator\n\nExpr: ">> \o e \o <<"\nResult: ">> \o r
       \o <<"\n\nTip: Inline U+2192 @YourBot 12*(3+4)">>

\* The reply markup of a call that passes kb(): the keypad, held by name.
Keypad == "kb()"

\* ----------------------------------------------------- the key of an event
\* data.startsWith("k:")
StartsWithK(data) == Len(data) >= 2 /\ data[1] = "k" /\ data[2] = ":"

\* data.slice(2)
KeyOf(data) == SubSeq(data, 3, Len(data))

\* A variant that drops the first character, s.expr.slice(1).
DropFirst(expr) == SubSeq(expr, 2, Len(expr))

\* s.expr.slice(0, -1)
DropLast(expr) == SubSeq(expr, 1, Len(expr) - 1)

\* The text safeEval leaves in s.result: its value, or `Error: ${e.message}`.
ResultText(r) == IF r.throws THEN <<"Error: ">> \o r.message ELSE r.value

\* A variant without the s.expr ? ... : "" guard.
EqualsResultUnguarded(expr) == ResultText(safeEval(expr))

\* The "=" branch: s.expr ? safeEval(s.expr) : "" inside try / catch.
EqualsResult(expr) == IF expr # <<>> THEN ResultText(safeEval(expr)) ELSE <<>>

\* Variants of the chain: an appended key also resets s.result; C resets
\* s.expr alone; a key is put in front of s.expr.
ApplyKeyResetsResult(s, key) ==
  IF key = <<"C">> THEN [s EXCEPT !.expr = <<>>, !.result = <<>>]
  ELSE IF key = <<"B", "S">> THEN [s EXCEPT !.expr = DropLast(s.expr)]
  ELSE IF key = <<"=">> THEN [s EXCEPT !.result = EqualsResult(s.expr)]
  ELSE [s EXCEPT !.expr = s.expr \o key, !.result = <<>>]

ApplyKeyClearsExprOnly(s, key) ==
  IF key = <<"C">> THEN [s EXCEPT !.expr = <<>>]
  ELSE IF key = <<"B", "S">> THEN [s EXCEPT !.expr = DropLast(s.expr)]
  ELSE IF key = <<"=">> THEN [s EXCEPT !.result = EqualsResult(s.expr)]
  ELSE [s EXCEPT !.expr = s.expr \o key]

ApplyKeyPrepends(s, key) ==
  IF key = <<"C">> THEN [s EXCEPT !.expr = <<>>, !.result = <<>>]
  ELSE IF key = <<"B", "S">> THEN [s EXCEPT !.expr = DropLast(s.expr)]
  ELSE IF key = <<"=">> THEN [s EXCEPT !.result = EqualsResult(s.expr)]
  ELSE [s EXCEPT !.expr = key \o s.expr]

\* The if / else-if chain on key: the fields of s after it.
ApplyKey(s, key) ==
  IF key = <<"C">> THEN [s EXCEPT !.expr = <<>>, !.result = <<>>]
  ELSE IF key = <<"B", "S">> THEN [s EXCEPT !.expr = DropLast(s.expr)]
  ELSE IF key = <<"=">> THEN [s EXCEPT !.result = EqualsResult(s.expr)]
  ELSE [s EXCEPT !.expr = s.expr \o key]

\* ------------------------------------------------------------- the state
VARIABLES
  input,     \* the text given to safeEval (evaluator specification)
  evalPc,    \* "idle", "ready" before the call, "done" after it
  outcome,   \* what the call threw or returned
  state,     \* the Map `state`: chat id -> session object, 0 where no entry
  heap,      \* the session objects { expr, result, msgId }, msgId 0 for null
  tasks,     \* the handlers suspended on an awaited transport call
  msgs,      \* the messages of the transport, indexed by message_id
  events,    \* updates delivered so far
  failures,  \* transport calls that failed so far
  lastDone,  \* history: what the handler that finished last did
  keylog,    \* history: per chat, the keys appended since the session began
  serial,    \* history: per chat, the key events applied one at a time
  raced,     \* history: per chat, two key handlers were in flight at once
  adminCache,  \* the Map adminCache: chat id -> "true", "false" or "absent"
  member,    \* the transport`s view: the status of the bot in each chat
  jobs,      \* the text, membership and command handlers suspended on a call
  trace,     \* history: the calls those handlers made and how they ended
  ownerId,   \* OWNER_ID
  db         \* the User and Group collections: the ids a broadcast finds

vars ==
  <<input, evalPc, outcome, state, heap, tasks, msgs, events, failures,
    lastDone, keylog, serial, raced, adminCache, member, jobs, trace, ownerId,
    db>>

sessionHistory == <<serial, raced>>

hubVars == <<adminCache, member, jobs, trace, ownerId, db>>

evalVars == <<input, evalPc, outcome>>

botVars == <<state, heap, tasks, msgs, events, failures, lastDone, keylog>>

AllChats == {1, 2}

\* A variant of the initial session that shows a result of "0".
NewSessionWithZero == [expr |-> <<>>, result |-> <<"0">>, msgId |-> 0]

\* { expr: "", result: "", msgId: null }
NewSession == [expr |-> <<>>, result |-> <<>>, msgId |-> 0]

NoOutcome == Throw(<<>>, <<>>)

NoneDone ==
  [kind |-> "none", chat |-> 0, data |-> <<>>, renders |-> 0, keypads |-> 0,
   delivered |-> 0, answers |-> 0, threw |-> FALSE]

\* keylog of a session in which C or the backspace was pressed.
Tainted == <<"tainted">>

BotInit ==
  /\ state = [c \in AllChats |-> 0]
  /\ heap = <<>>
  /\ tasks = {}
  /\ msgs = <<>>
  /\ events = 0
  /\ failures = 0
  /\ lastDone = NoneDone
  /\ keylog = [c \in AllChats |-> <<>>]
  /\ serial = [c \in AllChats |-> [expr |-> <<>>, result |-> <<>>]]
  /\ raced = [c \in AllChats |-> FALSE]

\* ------------------------------------------------- transport calls issued
EditCall(c, msgId, s) ==
  [method |-> "editMessageText", chat |-> c, msgId |-> msgId,
   text |-> renderUI(s.expr, s.result), markup |-> Keypad]

\* A variant of ctx.reply that passes no reply markup.
ReplyCallNoKeypad(c, s) ==
  [method |-> "sendMessage", chat |-> c, msgId |-> 0,
   text |-> renderUI(s.expr, s.result), markup |-> "none"]

\* ctx.reply(renderUI(s.expr, s.result), kb())
ReplyCall(c, s) ==
  [method |-> "sendMessage", chat |-> c, msgId |-> 0,
   text |-> renderUI(s.expr, s.result), markup |-> Keypad]

\* The handler`s record when it returns or throws: the transport calls it
\* made with a render, those of them that carried the keypad, those that
\* resolved, and the answerCbQuery calls.
Done(t, rejected, answers, threw) ==
  [kind |-> t.kind, chat |-> t.chat, data |-> t.data,
   renders |-> Len(t.calls),
   keypads |-> Cardinality({k \in 1..Len(t.calls) : t.calls[k].markup = Keypad}),
   delivered |-> Len(t.calls) - rejected,
   answers |-> answers, threw |-> threw]

KeylogAfter(log, key) ==
  IF key \in {<<"C">>, <<"B", "S">>} THEN Tainted
  ELSE IF key = <<"=">> \/ log = Tainted THEN log
  ELSE log \o key

\* A variant in which the sessions created by key presses are one object,
\* as with a default kept outside the handler: state.get(chatId) || fresh.
CallbackQueryShared(c, data) ==
  LET fresh == state[c] = 0
      idx == IF fresh THEN 1 ELSE state[c]
      heap1 == IF fresh /\ heap = <<>> THEN Append(heap, NewSession) ELSE heap
      s == ApplyKey(heap1[idx], KeyOf(data))
      call == IF s.msgId # 0 THEN EditCall(c, s.msgId, s) ELSE ReplyCall(c, s)
      t == [id |-> events + 1, kind |-> "callback_query", chat |-> c,
            data |-> data, s |-> idx, pc |-> "first", calls |-> <<call>>,
            before |-> heap1[idx]]
  IN /\ events < MaxEvents
     /\ events' = events + 1
     /\ state' = [state EXCEPT ![c] = idx]
     /\ IF ~StartsWithK(data)
          THEN /\ heap' = heap1
               /\ lastDone' = Done([t EXCEPT !.calls = <<>>], 0, 1, FALSE)
               /\ UNCHANGED <<tasks, keylog>>
          ELSE /\ heap' = [heap1 EXCEPT ![idx] = s]
               /\ tasks' = tasks \cup {t}
               /\ keylog' = [keylog EXCEPT ![c] = KeylogAfter(@, KeyOf(data))]
               /\ UNCHANGED lastDone
     /\ UNCHANGED <<msgs, failures, evalVars>>

\* --------------------------------------------- bot.on("callback_query")
\* The synchronous part, up to the first await: the session is fetched or
\* created, the key is applied, the render is handed to the transport.
CallbackQuery(c, data) ==
  LET fresh == state[c] = 0
      idx == IF fresh THEN Len(heap) + 1 ELSE state[c]
      heap1 == IF fresh THEN Append(heap, NewSession) ELSE heap
      s == ApplyKey(heap1[idx], KeyOf(data))
      call == IF s.msgId # 0 THEN EditCall(c, s.msgId, s) ELSE ReplyCall(c, s)
      t == [id |-> events + 1, kind |-> "callback_query", chat |-> c,
            data |-> data, s |-> idx, pc |-> "first", calls |-> <<call>>,
            before |-> heap1[idx]]
  IN /\ events < MaxEvents
     /\ events' = events + 1
     /\ state' = [state EXCEPT ![c] = idx]
     /\ IF ~StartsWithK(data)
          THEN /\ heap' = heap1
               /\ lastDone' = Done([t EXCEPT !.calls = <<>>], 0, 1, FALSE)
               /\ UNCHANGED <<tasks, keylog>>
          ELSE /\ heap' = [heap1 EXCEPT ![idx] = s]
               /\ tasks' = tasks \cup {t}
               /\ keylog' = [keylog EXCEPT ![c] = KeylogAfter(@, KeyOf(data))]
               /\ UNCHANGED lastDone
     /\ UNCHANGED <<msgs, failures, evalVars>>

Pending(t) == t.calls[Len(t.calls)]

\* A variant that returns after the edit without answering the query.
EditSucceedsUnanswered(t) ==
  /\ t.kind = "callback_query" /\ t.pc = "first"
  /\ Pending(t).method = "editMessageText"
  /\ msgs' = [msgs EXCEPT ![Pending(t).msgId] =
                [chat |-> t.chat, text |-> Pending(t).text,
                 markup |-> Pending(t).markup]]
  /\ tasks' = tasks \ {t}
  /\ lastDone' = Done(t, Len(t.calls) - 1, 0, FALSE)
  /\ UNCHANGED <<state, heap, events, failures, keylog, evalVars>>

\* The awaited editMessageText resolves: the handler answers the query.
EditSucceeds(t) ==
  /\ t.kind = "callback_query" /\ t.pc = "first"
  /\ Pending(t).method = "editMessageText"
  /\ msgs' = [msgs EXCEPT ![Pending(t).msgId] =
                [chat |-> t.chat, text |-> Pending(t).text,
                 markup |-> Pending(t).markup]]
  /\ tasks' = tasks \ {t}
  /\ lastDone' = Done(t, Len(t.calls) - 1, 1, FALSE)
  /\ UNCHANGED <<state, heap, events, failures, keylog, evalVars>>

\* The awaited sendMessage of the try block resolves: msgId is recorded.
ReplySucceeds(t) ==
  /\ t.kind = "callback_query" /\ t.pc = "first"
  /\ Pending(t).method = "sendMessage"
  /\ msgs' = Append(msgs, [chat |-> t.chat, text |-> Pending(t).text,
                           markup |-> Pending(t).markup])
  /\ heap' = [heap EXCEPT ![t.s].msgId = Len(msgs) + 1]
  /\ tasks' = tasks \ {t}
  /\ lastDone' = Done(t, Len(t.calls) - 1, 1, FALSE)
  /\ UNCHANGED <<state, events, failures, keylog, evalVars>>

\* The awaited call of the try block rejects: the catch block sends the
\* render, computed again from the session, as a new message.
FirstCallFails(t) ==
  /\ t.kind = "callback_query" /\ t.pc = "first"
  /\ failures < MaxFailures
  /\ failures' = failures + 1
  /\ tasks' = (tasks \ {t}) \cup
       {[t EXCEPT !.pc = "catch",
                  !.calls = Append(@, ReplyCall(t.chat, heap[t.s]))]}
  /\ UNCHANGED <<state, heap, msgs, events, lastDone, keylog, evalVars>>

\* A variant of the catch block that does not record the new message.
FallbackSucceedsKeepsRef(t) ==
  /\ t.kind = "callback_query" /\ t.pc = "catch"
  /\ msgs' = Append(msgs, [chat |-> t.chat, text |-> Pending(t).text,
                           markup |-> Pending(t).markup])
  /\ tasks' = tasks \ {t}
  /\ lastDone' = Done(t, Len(t.calls) - 1, 1, FALSE)
  /\ UNCHANGED <<state, heap, events, failures, keylog, evalVars>>

\* The sendMessage of the catch block resolves.
FallbackSucceeds(t) ==
  /\ t.kind = "callback_query" /\ t.pc = "catch"
  /\ msgs' = Append(msgs, [chat |-> t.chat, text |-> Pending(t).text,
                           markup |-> Pending(t).markup])
  /\ heap' = [heap EXCEPT ![t.s].msgId = Len(msgs) + 1]
  /\ tasks' = tasks \ {t}
  /\ lastDone' = Done(t, Len(t.calls) - 1, 1, FALSE)
  /\ UNCHANGED <<state, events, failures, keylog, evalVars>>

\* The sendMessage of the catch block rejects: the handler throws.
FallbackFails(t) ==
  /\ t.kind = "callback_query" /\ t.pc = "catch"
  /\ failures < MaxFailures
  /\ failures' = failures + 1
  /\ tasks' = tasks \ {t}
  /\ lastDone' = Done(t, Len(t.calls), 0, TRUE)
  /\ UNCHANGED <<state, heap, msgs, events, keylog, evalVars>>

\* ------------------------------------------------ bot.command("calculator")
Calculator(c) ==
  LET idx == Len(heap) + 1
      t == [id |-> events + 1, kind |-> "calculator", chat |-> c,
            data |-> <<>>, s |-> idx, pc |-> "first",
            calls |-> <<ReplyCall(c, NewSession)>>, before |-> NewSession]
  IN /\ events < MaxEvents
     /\ events' = events + 1
     /\ heap' = Append(heap, NewSession)
     /\ state' = [state EXCEPT ![c] = idx]
     /\ tasks' = tasks \cup {t}
     /\ keylog' = [keylog EXCEPT ![c] = <<>>]
     /\ UNCHANGED <<msgs, failures, lastDone, evalVars>>

OpenSucceeds(t) ==
  /\ t.kind = "calculator"
  /\ msgs' = Append(msgs, [chat |-> t.chat, text |-> Pending(t).text,
                           markup |-> Pending(t).markup])
  /\ heap' = [heap EXCEPT ![t.s].msgId = Len(msgs) + 1]
  /\ tasks' = tasks \ {t}
  /\ lastDone' = Done(t, 0, 0, FALSE)
  /\ UNCHANGED <<state, events, failures, keylog, evalVars>>

OpenFails(t) ==
  /\ t.kind = "calculator"
  /\ failures < MaxFailures
  /\ failures' = failures + 1
  /\ tasks' = tasks \ {t}
  /\ lastDone' = Done(t, 1, 0, TRUE)
  /\ UNCHANGED <<state, heap, msgs, events, keylog, evalVars>>

\* ------------------------------------------------------ specifications
\* The keys pressed in the session specification and a callback that is no
\* key of the keypad.
AppendKeys == {<<"1">>, <<"2">>, <<"+">>, <<"(">>, <<".">>}

PressedData ==
  {<<"k", ":">> \o k : k \in AppendKeys \cup {<<"C">>, <<"B", "S">>, <<"=">>}}
    \cup {<<"n", "o", "o", "p">>}

Chats == {1}

\* The group handlers and the owner commands at rest, no owner configured.
HubInit ==
  /\ adminCache = [c \in AllChats |-> "absent"]
  /\ member = [c \in AllChats |-> "member"]
  /\ jobs = {}
  /\ trace = <<>>
  /\ ownerId = 0
  /\ db = [users |-> <<>>, groups |-> <<>>]

Init ==
  /\ input = <<>> /\ evalPc = "idle" /\ outcome = NoOutcome
  /\ BotInit
  /\ HubInit

\* Updates are handled one at a time: the next one is delivered when the
\* handler of the last one has settled.
Deliver ==
  /\ tasks = {}
  /\ \/ \E c \in Chats : \E data \in PressedData : CallbackQuery(c, data)
     \/ \E c \in Chats : Calculator(c)
  /\ UNCHANGED <<sessionHistory, hubVars>>

SettleStep ==
  \E t \in tasks :
    \/ EditSucceeds(t)
    \/ ReplySucceeds(t)
    \/ FirstCallFails(t)
    \/ FallbackSucceeds(t)
    \/ FallbackFails(t)
    \/ OpenSucceeds(t)
    \/ OpenFails(t)

Settle == SettleStep /\ UNCHANGED <<sessionHistory, hubVars>>

Next == Deliver \/ Settle

Spec == Init /\ [][Next]_vars

\* The evaluator alone: one text, one call of safeEval.
Evaluate ==
  /\ evalPc = "ready"
  /\ evalPc' = "done"
  /\ outcome' = safeEval(input)
  /\ UNCHANGED <<input, botVars, sessionHistory, hubVars>>

InitEval ==
  /\ input \in Inputs /\ evalPc = "ready" /\ outcome = NoOutcome
  /\ BotInit
  /\ HubInit

NextEval == Evaluate

SpecEval == InitEval /\ [][NextEval]_vars

\* ================================================================ claims
\* ------------------------------------------------- evaluator (SpecEval)
Unsupported == <<"Unsupported expression.">>
InvalidCharacters == <<"Invalid characters.">>
NonFinite == <<"Result is not finite.">>

Rejects(msg) == outcome.throws /\ outcome.message = msg

\* text holds an identifier of the denylist, in any letter case.
HasBlockedIdentifier(text) ==
  \E w \in BlockedWords : \E i \in 1..(Len(text) - Len(w) + 1) :
    LowerText(SubSeq(text, i, i + Len(w) - 1)) = LowerText(w)

\* C1: an input that contains an identifier of the denylist as a substring,
\* in any letter case, is rejected with "Unsupported expression." and no
\* text is handed to the arithmetic engine.
C1_BlockedIdentifierRejected ==
  (evalPc = "done" /\ HasBlockedIdentifier(input))
    => (Rejects(Unsupported) /\ outcome.engine = <<>>)

\* An input with the identifier in mixed case has been rejected.
C1_Witness ==
  /\ evalPc = "done"
  /\ HasBlockedIdentifier(input)
  /\ input # LowerText(input)
  /\ Rejects(Unsupported)

\* C2 as stated: an input with a character outside the allowlist is
\* rejected with "Invalid characters.".
C2_Original ==
  (evalPc = "done" /\ \E k \in 1..Len(input) : input[k] \notin AllowedChars)
    => Rejects(InvalidCharacters)

\* The characters the normalization rewrites or deletes before the checks.
NormalizedAway == {MulSign, DivSign, EmDash, MinusSign, ","}

WithoutCommas(text) == SelectSeq(text, LAMBDA c : c # ",")

\* C2 amended: an input with a character that is neither in the allowlist
\* nor rewritten by the normalization, and with no identifier of the
\* denylist once its commas are removed, is rejected with
\* "Invalid characters." and never reaches the engine.
C2_InvalidCharactersRejected ==
  ( /\ evalPc = "done"
    /\ \E k \in 1..Len(input) : input[k] \notin (AllowedChars \cup NormalizedAway)
    /\ ~HasBlockedIdentifier(WithoutCommas(input)) )
    => (Rejects(InvalidCharacters) /\ outcome.engine = <<>>)

\* An en dash among allowed characters has been rejected.
C2_Witness ==
  /\ evalPc = "done"
  /\ \E k \in 1..Len(input) : input[k] = EnDash
  /\ \E k \in 1..Len(input) : input[k] \in Digit
  /\ ~HasBlockedIdentifier(WithoutCommas(input))
  /\ Rejects(InvalidCharacters)

\* C3: an empty or white-space-only input is rejected, never answered with
\* a success value.
C3_EmptyRejected ==
  (evalPc = "done" /\ \A k \in 1..Len(input) : input[k] \in WhiteSpace)
    => outcome.throws

\* The engine was called and returned an infinite or NaN number.
NonFiniteNumber(result) == result.type = "number" /\ result.v.den = 0

EngineNonFinite ==
  outcome.engine # <<>> /\ NonFiniteNumber(MathEvaluate(outcome.engine[1]))

\* C4: when the number the engine returns is infinite or NaN, safeEval
\* rejects with "Result is not finite." and returns no value.
C4_NonFiniteRejected ==
  (evalPc = "done" /\ EngineNonFinite)
    => (Rejects(NonFinite) /\ outcome.value = <<>>)

\* A division by zero has been rejected.
C4_Witness ==
  /\ evalPc = "done"
  /\ input = <<"1", "/", "0">>
  /\ EngineNonFinite
  /\ Rejects(NonFinite)

\* ------------------------------------------------------- session (Spec)
\* The handlers of key events that are in flight, by the key pressed.
KeyTasks(key) ==
  {t \in tasks : t.kind = "callback_query" /\ t.data = <<"k", ":">> \o key}

\* What the evaluator`s outcome on expr reads as: its success value, or
\* "Error: " and the reason of its rejection.
OutcomeText(r) == IF r.throws THEN <<"Error: ">> \o r.message ELSE r.value

ExpectedAfterEquals(expr) ==
  IF expr = <<>> THEN <<>> ELSE OutcomeText(safeEval(expr))

\* C5: an Equals key event leaves the expression of the session unchanged
\* and sets the result to the evaluator`s success value, or to "Error: "
\* and the reason when the evaluator rejects, when the expression is not
\* empty, and to the empty string when it is empty.
C5_EqualsSetsResult ==
  \A t \in KeyTasks(<<"=">>) :
    /\ heap[t.s].expr = t.before.expr
    /\ heap[t.s].result = ExpectedAfterEquals(t.before.expr)

\* Equals on an expression the engine cannot parse has left an error text.
C5_Witness ==
  \E t \in KeyTasks(<<"=">>) :
    /\ t.before.expr = <<"1", "+">>
    /\ heap[t.s].expr = <<"1", "+">>
    /\ heap[t.s].result = <<"Error: ">> \o EngineMessage

\* C6: a digit, operator, parenthesis or dot key event appends the text of
\* the key to the end of the expression and leaves the result unchanged,
\* also when the result is that of an earlier Equals.
C6_AppendKey ==
  \A key \in AppendKeys : \A t \in KeyTasks(key) :
    /\ heap[t.s].expr = t.before.expr \o key
    /\ heap[t.s].result = t.before.result

\* A key has been appended while the result of an earlier Equals stands.
C6_Witness ==
  \E key \in AppendKeys : \E t \in KeyTasks(key) :
    /\ t.before.expr # <<>>
    /\ t.before.result # <<>>
    /\ heap[t.s].expr = t.before.expr \o key
    /\ heap[t.s].result = t.before.result

\* C7: a Clear key event, from any session state, sets the expression and
\* the result of the session to the empty string.
C7_ClearResets ==
  \A t \in KeyTasks(<<"C">>) :
    heap[t.s].expr = <<>> /\ heap[t.s].result = <<>>

\* Clear has emptied a session that held an expression and a result.
C7_Witness ==
  \E t \in KeyTasks(<<"C">>) :
    /\ t.before.expr # <<>>
    /\ t.before.result # <<>>
    /\ t.before.msgId # 0
    /\ heap[t.s].expr = <<>>
    /\ heap[t.s].result = <<>>

\* The handler t settles in this step: it returns or throws.
Finishes(t) == t \in tasks /\ \A u \in tasks' : u.id # t.id

\* C8 as stated, for its empty case: a Backspace key event on a session
\* that shows a message and has an empty expression raises no error and
\* changes no field of the session.
C8_Original ==
  [][\A t \in KeyTasks(<<"B", "S">>) :
       (Finishes(t) /\ t.before.expr = <<>> /\ t.before.msgId # 0)
         => (heap'[t.s] = t.before /\ ~lastDone'.threw)]_vars

\* C8 amended: a Backspace key event removes the last character of the
\* expression and leaves the result unchanged; on an empty expression it
\* leaves the expression and the result as they were, and until its render
\* is delivered the message reference too.
C8_BackspaceDropsLast ==
  \A t \in KeyTasks(<<"B", "S">>) :
    /\ Len(heap[t.s].expr) = IF t.before.expr = <<>> THEN 0
                                ELSE Len(t.before.expr) - 1
    /\ heap[t.s].expr = SubSeq(t.before.expr, 1, Len(heap[t.s].expr))
    /\ heap[t.s].result = t.before.result
    /\ heap[t.s].msgId = t.before.msgId

\* Backspace on an empty expression: the edit of the message was refused
\* and the render is on its way as a new message.
C8_Witness ==
  \E t \in KeyTasks(<<"B", "S">>) :
    /\ t.before.expr = <<>>
    /\ t.before.msgId # 0
    /\ t.pc = "catch"
    /\ heap[t.s].expr = <<>>
    /\ heap[t.s].result = t.before.result

\* C9 as stated: from a fresh session, after any sequence of appending key
\* presses followed by Equals the result is the evaluator`s outcome on the
\* concatenation of the keys pressed, and a following Clear empties both
\* fields.
C9_Original ==
  /\ \A t \in KeyTasks(<<"=">>) :
        keylog[t.chat] # Tainted
          => heap[t.s].result = OutcomeText(safeEval(keylog[t.chat]))
  /\ \A t \in KeyTasks(<<"C">>) :
        heap[t.s].expr = <<>> /\ heap[t.s].result = <<>>

\* C9 amended: the same for any sequence of at least one appending key
\* press.
C9_KeysThenEquals ==
  /\ \A t \in KeyTasks(<<"=">>) :
        (keylog[t.chat] # Tainted /\ keylog[t.chat] # <<>>)
          => /\ heap[t.s].expr = keylog[t.chat]
             /\ heap[t.s].result = OutcomeText(safeEval(keylog[t.chat]))
  /\ \A t \in KeyTasks(<<"C">>) :
        (t.before.expr # <<>> /\ t.before.result # <<>>)
          => (heap[t.s].expr = <<>> /\ heap[t.s].result = <<>>)

\* "1", "+", "2" and Equals have been pressed on a fresh session.
C9_Witness ==
  \E t \in KeyTasks(<<"=">>) :
    /\ keylog[t.chat] = <<"1", "+", "2">>
    /\ heap[t.s].expr = <<"1", "+", "2">>
    /\ heap[t.s].result = <<"3">>

\* A handler of a key event that has settled.
KeyEventDone == lastDone.kind = "callback_query" /\ StartsWithK(lastDone.data)

\* C10 as stated: after a key event the render is requested exactly once,
\* with the keypad.
C10_Original ==
  KeyEventDone => (lastDone.renders = 1 /\ lastDone.keypads = 1)

\* C10 amended: for a key event the render is handed to the transport once
\* and, when that call is refused, once more as a new message; each of
\* these calls carries the keypad, at most one of them is delivered, and
\* the handler throws exactly when both are refused.
C10_RenderOnceOrTwice ==
  /\ \A t \in tasks :
        (t.kind = "callback_query")
          => /\ Len(t.calls) = IF t.pc = "first" THEN 1 ELSE 2
             /\ \A k \in 1..Len(t.calls) : t.calls[k].markup = Keypad
             /\ Pending(t).text = renderUI(heap[t.s].expr, heap[t.s].result)
  /\ KeyEventDone
       => /\ lastDone.renders \in {1, 2}
          /\ lastDone.keypads = lastDone.renders
          /\ lastDone.delivered <= 1
          /\ lastDone.renders = 1 => lastDone.delivered = 1
          /\ lastDone.threw <=> lastDone.delivered = 0
          /\ lastDone.answers = IF lastDone.threw THEN 0 ELSE 1

\* A key event whose edit was refused and whose new message was delivered.
C10_Witness ==
  /\ KeyEventDone
  /\ lastDone.renders = 2
  /\ lastDone.keypads = 2
  /\ lastDone.delivered = 1
  /\ ~lastDone.threw

\* The handlers of key events in flight, whatever the key.
KeyEventTasks ==
  {t \in tasks : t.kind = "callback_query" /\ StartsWithK(t.data)}

\* The handler t returns in this step, its render delivered.
Delivers(t) == Finishes(t) /\ ~lastDone'.threw

\* The awaited call of t is refused in this step and t goes on.
Refused(t) == t \in tasks /\ \E u \in tasks' : u.id = t.id /\ u.pc # t.pc

\* C11: when a key event delivers its render, either the session has a
\* message reference and the edit succeeds, and then no message is sent and
\* the reference is unchanged, or the reference is absent or the edit is
\* refused, and then exactly one new message is sent, carrying the render,
\* and the reference becomes that of the new message.
C11_EditOrResend ==
  [][\A t \in KeyEventTasks :
       /\ (Delivers(t) /\ t.pc = "first"
             /\ Pending(t).method = "editMessageText")
            => /\ t.before.msgId # 0
               /\ Len(msgs') = Len(msgs)
               /\ heap'[t.s].msgId = t.before.msgId
       /\ (Delivers(t) /\ (t.pc = "catch" \/ Pending(t).method = "sendMessage"))
            => /\ t.pc = "first" => t.before.msgId = 0
               /\ Len(msgs') = Len(msgs) + 1
               /\ msgs'[Len(msgs')].text =
                    renderUI(heap[t.s].expr, heap[t.s].result)
               /\ heap'[t.s].msgId = Len(msgs')
       /\ Refused(t) => (msgs' = msgs /\ heap' = heap)]_vars

\* The edit of the message of a session was refused; its render went out
\* as a second message, which the session now refers to.
C11_Witness ==
  /\ KeyEventDone
  /\ lastDone.renders = 2 /\ lastDone.delivered = 1
  /\ tasks = {}
  /\ Len(msgs) >= 2
  /\ state[lastDone.chat] # 0
  /\ heap[state[lastDone.chat]].msgId = Len(msgs)

\* ---------------------------------- sessions under interleaving handlers
\* The webhook hands every update to its handler as it arrives: a handler
\* starts while others are suspended on their transport calls.
MaxInFlight == 2

\* Updates that arrive in an interleaved run.
MaxArrivals == 3

\* What the table of key events prescribes for the two text fields.
KeyEffect(s, key) ==
  IF key = <<"C">> THEN [expr |-> <<>>, result |-> <<>>]
  ELSE IF key = <<"B", "S">>
    THEN [s EXCEPT !.expr = IF s.expr = <<>> THEN <<>>
                             ELSE SubSeq(s.expr, 1, Len(s.expr) - 1)]
  ELSE IF key = <<"=">> THEN [s EXCEPT !.result = ExpectedAfterEquals(s.expr)]
  ELSE [s EXCEPT !.expr = s.expr \o key]

\* The callback data of the updates of each chat.
ConcurrentData(c) ==
  IF c = 1
    THEN {<<"k", ":">> \o k : k \in {<<"1">>, <<"+">>, <<"=">>}}
    ELSE {<<"k", ":", "+">>, <<"n", "o", "o", "p">>}

KeyArrives(c, data) ==
  /\ CallbackQuery(c, data)
  /\ serial' = [serial EXCEPT ![c] =
                  IF StartsWithK(data) THEN KeyEffect(@, KeyOf(data)) ELSE @]
  /\ raced' = [raced EXCEPT ![c] =
                 @ \/ (StartsWithK(data) /\ \E t \in KeyEventTasks : t.chat = c)]

OpenArrives(c) ==
  /\ Calculator(c)
  /\ serial' = [serial EXCEPT ![c] = [expr |-> <<>>, result |-> <<>>]]
  /\ UNCHANGED raced

Arrive ==
  /\ Cardinality(tasks) < MaxInFlight
  /\ events < MaxArrivals
  /\ \/ \E c \in AllChats : \E data \in ConcurrentData(c) : KeyArrives(c, data)
     \/ \E c \in AllChats : OpenArrives(c)
  /\ UNCHANGED hubVars

NextConcurrent == Arrive \/ Settle

SpecConcurrent == Init /\ [][NextConcurrent]_vars

\* The session the map holds for chat c, if any.
Held(c) ==
  IF state[c] = 0 THEN [held |-> FALSE, s |-> [expr |-> <<>>, result |-> <<>>, msgId |-> 0]]
  ELSE [held |-> TRUE, s |-> heap[state[c]]]

\* C12: a session created for a conversation, by /calculator (which
\* replaces the session the conversation had) or by a key press when the
\* map holds none, is a new object with expr "", result "" and no message
\* reference, to which the key that created it is then applied; and at every
\* moment the map holds at most one session per chat and no session for
\* two chats.
C12_CreatedFresh ==
  /\ [](\A c, d \in AllChats :
          /\ state[c] \in 0..Len(heap)
          /\ (state[c] # 0 /\ state[c] = state[d]) => c = d)
  /\ [][\A c \in AllChats :
          state'[c] # state[c]
            => /\ state'[c] = Len(heap) + 1
               /\ Len(heap') = Len(heap) + 1
               /\ heap'[state'[c]].msgId = 0
               /\ heap'[state'[c]].result = <<>>
               /\ \/ heap'[state'[c]].expr = <<>>
                  \/ \E t \in tasks' \ tasks :
                       /\ t.kind = "callback_query" /\ t.chat = c
                       /\ heap'[state'[c]].expr = KeyOf(t.data)
               /\ \/ state[c] = 0
                  \/ \E t \in tasks' \ tasks : t.kind = "calculator" /\ t.chat = c]_vars

\* /calculator has replaced a session that held an expression, while the
\* other chat has a session of its own.
C12_Witness ==
  /\ \E t \in tasks : t.kind = "calculator" /\ t.chat = 1 /\ t.s = state[1]
  /\ state[1] > 1 /\ state[2] # 0
  /\ heap[state[1]] = [expr |-> <<>>, result |-> <<>>, msgId |-> 0]
  /\ \E i \in 1..Len(heap) : i # state[2] /\ heap[i].expr # <<>>

\* The step belongs to chat c: an update of c arrives or a handler of c
\* goes on.
StepOf(c) ==
  \/ \E t \in tasks' \ tasks : t.chat = c
  \/ \E t \in tasks \ tasks' : t.chat = c
  \/ (tasks' = tasks /\ events' # events /\ lastDone'.chat = c)

\* C13: under any interleaving of handlers, a step of an event of one chat
\* leaves the session of every other chat, its expr, result and msgId, as
\* it was.
C13_OtherChatsUntouched ==
  [][\A c \in AllChats : StepOf(c)
        => \A d \in AllChats \ {c} : Held(d)' = Held(d)]_vars

\* Handlers of both chats are in flight and each session holds the keys of
\* its own chat.
C13_Witness ==
  /\ \E t \in KeyEventTasks : t.chat = 1
  /\ \E t \in KeyEventTasks : t.chat = 2
  /\ Held(1).s.expr = <<"1">>
  /\ Held(2).s.expr = <<"+", "+">>

\* C14: whatever the order in which the key handlers of a chat that were
\* in flight together settle, the expr and result of its session are those
\* the key events give when applied one at a time in the order of arrival.
C14_ArrivalOrder ==
  \A c \in AllChats :
    Held(c).held
      => /\ Held(c).s.expr = serial[c].expr
         /\ Held(c).s.result = serial[c].result

\* Two key handlers of a chat were in flight at once and have settled.
C14_Witness ==
  /\ tasks = {}
  /\ raced[1]
  /\ Held(1).held
  /\ Held(1).s.expr = <<"+", "1">>
  /\ serial[1].expr = <<"+", "1">>
  /\ Held(1).s.result = <<"1">>

\* ============================================ text and membership updates
\* ctx.chat.type of the two chats.
ChatType == <<"private", "group">>

IsGroup(c) == ChatType[c] \in {"group", "supergroup"}

\* text.startsWith("/")
StartsWithSlash(text) == Len(text) >= 1 /\ text[1] = "/"

\* text.replace(/\*/g, "U+00D7").replace(/\//g, "U+00F7")
PrettyChar(c) == IF c = "*" THEN MulSign ELSE IF c = "/" THEN DivSign ELSE c

prettyExpr(text) == [k \in 1..Len(text) |-> PrettyChar(text[k])]

\* A variant of the private branch that is silent on a rejection, as the
\* group branch is.
PrivateRepliesSilent(text, r) ==
  IF r.throws THEN <<>>
  ELSE << <<"U+1F9EE ">> \o text \o <<"\n= ">> \o r.value >>

\* The replies of the private branch: the result, or the message of the
\* error caught.
PrivateReplies(text, r) ==
  << IF r.throws THEN <<"U+274C ">> \o r.message
     ELSE <<"U+1F9EE ">> \o text \o <<"\n= ">> \o r.value >>

\* The replies of the group branch once the bot is known to be
\* administrator: the result, or nothing when safeEval throws.
GroupReplies(text, r) ==
  IF r.throws THEN <<>> ELSE << prettyExpr(text) \o <<" = ">> \o r.value >>

\* A suspended handler of a text, membership or command update.
Job(id, kind, c) ==
  [id |-> id, kind |-> kind, chat |-> c, pc |-> "start", text |-> <<>>,
   from |-> 0, status |-> "", admin |-> "unknown", build |-> "index.js",
   todo |-> <<>>,
   userOk |-> 0, userFail |-> 0, groupOk |-> 0, groupFail |-> 0]

\* One line of the history: a call of handler id, or its end.
Entry(j, what, to, text) ==
  [id |-> j.id, kind |-> j.kind, build |-> j.build, what |-> what, to |-> to,
   text |-> text, about |-> j.text, chat |-> j.chat, from |-> j.from,
   admin |-> j.admin, status |-> j.status]

Without(id) == {j \in jobs : j.id # id}

\* The handler returns without another call.
Returns(j) ==
  /\ trace' = Append(trace, Entry(j, "returned", 0, <<>>))
  /\ jobs' = Without(j.id)

\* return ctx.reply(...): the handler ends as that call ends; with no reply
\* to send it returns.
Respond(j, replies) ==
  IF replies = <<>> THEN Returns(j)
  ELSE /\ trace' = Append(trace, Entry(j, "reply", j.chat, replies[1]))
       /\ jobs' = Without(j.id) \cup {[j EXCEPT !.pc = "reply"]}

\* bot.on("text") of index.js up to its first await.
TextBranch(j) ==
  IF StartsWithSlash(j.text) THEN Returns(j)
  ELSE IF IsGroup(j.chat)
    THEN IF adminCache[j.chat] = "absent"
           THEN /\ trace' = Append(trace, Entry(j, "getChatMember", j.chat, <<>>))
                /\ jobs' = jobs \cup {[j EXCEPT !.pc = "getChatMember"]}
           ELSE Respond([j EXCEPT !.admin = adminCache[j.chat]],
                        IF adminCache[j.chat] = "true"
                             THEN GroupReplies(j.text, safeEval(j.text))
                             ELSE <<>>)
    ELSE Respond(j, PrivateReplies(j.text, safeEval(j.text)))

TextArrives(c, raw) ==
  /\ events' = events + 1
  /\ TextBranch([Job(events + 1, "text", c) EXCEPT !.text = Trim(raw)])
  /\ UNCHANGED <<adminCache, member, ownerId, failures>>

\* bot.on("text") of part_001: no branch on the chat type.
TextArrivesPart001(c, raw) ==
  LET j == [Job(events + 1, "text", c) EXCEPT !.text = Trim(raw),
                                              !.build = "part_001"]
  IN /\ events' = events + 1
     /\ IF StartsWithSlash(j.text) THEN Returns(j)
        ELSE Respond(j, PrivateReplies(j.text, safeEval(j.text)))
     /\ UNCHANGED <<adminCache, member, ownerId, failures>>

\* isBotAdminInChat: me.status === "administrator" || "creator"
IsAdminStatus(status) ==
  IF status \in {"administrator", "creator"} THEN "true" ELSE "false"

\* getChatMember resolves: the cache is set and the group branch goes on.
MemberResolves(j) ==
  /\ j.kind = "text" /\ j.pc = "getChatMember"
  /\ adminCache' = [adminCache EXCEPT ![j.chat] = IsAdminStatus(member[j.chat])]
  /\ Respond([j EXCEPT !.admin = IsAdminStatus(member[j.chat])],
             IF IsAdminStatus(member[j.chat]) = "true"
                  THEN GroupReplies(j.text, safeEval(j.text))
                  ELSE <<>>)
  /\ UNCHANGED <<events, member, ownerId, failures>>

\* getChatMember rejects: the cache is set to false.
MemberRejects(j) ==
  /\ j.kind = "text" /\ j.pc = "getChatMember"
  /\ failures < MaxFailures
  /\ failures' = failures + 1
  /\ adminCache' = [adminCache EXCEPT ![j.chat] = "false"]
  /\ Returns([j EXCEPT !.admin = "false"])
  /\ UNCHANGED <<events, member, ownerId>>

\* The reply the handler returned resolves.
ReplyResolves(j) ==
  /\ j.pc = "reply"
  /\ Returns(j)
  /\ UNCHANGED <<events, adminCache, member, ownerId, failures>>

\* The reply the handler returned rejects, and the handler with it.
ReplyRejects(j) ==
  /\ j.pc = "reply"
  /\ failures < MaxFailures
  /\ failures' = failures + 1
  /\ trace' = Append(trace, Entry(j, "threw", 0, <<>>))
  /\ jobs' = Without(j.id)
  /\ UNCHANGED <<events, adminCache, member, ownerId>>

\* bot.on("my_chat_member"): the status of the bot in a group changed; the
\* handler awaits Group.findOneAndUpdate.
MyChatMember(c, status) ==
  /\ IsGroup(c)
  /\ events' = events + 1
  /\ member' = [member EXCEPT ![c] = status]
  /\ jobs' = jobs \cup {[Job(events + 1, "my_chat_member", c)
                           EXCEPT !.pc = "db", !.status = status]}
  /\ UNCHANGED <<adminCache, trace, ownerId, failures>>

\* The update of the Group document resolves; after a departure the cache
\* entry is deleted.
GroupUpdateResolves(j) ==
  /\ j.kind = "my_chat_member" /\ j.pc = "db"
  /\ adminCache' = IF j.status \in {"left", "kicked"}
                     THEN [adminCache EXCEPT ![j.chat] = "absent"]
                     ELSE adminCache
  /\ Returns(j)
  /\ UNCHANGED <<events, member, ownerId, failures>>

\* The update of the Group document rejects: the catch block logs it.
GroupUpdateRejects(j) ==
  /\ j.kind = "my_chat_member" /\ j.pc = "db"
  /\ failures < MaxFailures
  /\ failures' = failures + 1
  /\ Returns(j)
  /\ UNCHANGED <<events, adminCache, member, ownerId>>

sessionVars == <<state, heap, tasks, msgs, lastDone, keylog>>

\* The texts sent to the bot: a division by zero, a quotient, a command.
MaxTexts == 2

Texts == {<<"1", "/", "0">>, <<" ", "4", "/", "2">>, <<" ", "/", "x">>}

\* The texts sent to the group, and to the group when part_001 runs.
GroupTexts == {<<"1", "/", "0">>, <<" ", "4", "/", "2">>}

Part001Texts == {<<"1", "/", "0">>}

Statuses == {"left", "administrator"}

InitText ==
  /\ input = <<>> /\ evalPc = "idle" /\ outcome = NoOutcome
  /\ BotInit
  /\ adminCache = [c \in AllChats |-> "absent"]
  /\ member \in [AllChats -> {"member", "administrator"}]
  /\ member[1] = "member"
  /\ jobs = {}
  /\ trace = <<>>
  /\ ownerId = 0
  /\ db = [users |-> <<>>, groups |-> <<>>]

Receive ==
  /\ events < MaxTexts
  /\ Cardinality(jobs) < MaxInFlight
  /\ \/ \E raw \in Texts : TextArrives(1, raw)
     \/ \E raw \in GroupTexts : TextArrives(2, raw)
     \/ \E raw \in Part001Texts : TextArrivesPart001(2, raw)
     \/ \E status \in Statuses : MyChatMember(2, status)
  /\ UNCHANGED <<evalVars, sessionVars, sessionHistory, db>>

Resume ==
  /\ \E j \in jobs :
       \/ MemberResolves(j)
       \/ MemberRejects(j)
       \/ ReplyResolves(j)
       \/ ReplyRejects(j)
       \/ GroupUpdateResolves(j)
       \/ GroupUpdateRejects(j)
  /\ UNCHANGED <<evalVars, sessionVars, sessionHistory, db>>

NextText == Receive \/ Resume

SpecText == InitText /\ [][NextText]_vars

\* ------------------------------------------------------ claims (SpecText)
\* The lines of the history about replies to plain texts.
TextReplies ==
  {k \in 1..Len(trace) : trace[k].kind = "text" /\ trace[k].what = "reply"}

\* The outcomes of the evaluator on the texts sent, computed once.
ExpectedOutcomes == [text \in {Trim(raw) : raw \in Texts} |-> safeEval(text)]

ExpectedOutcome(text) ==
  IF text \in DOMAIN ExpectedOutcomes THEN ExpectedOutcomes[text]
  ELSE safeEval(text)

\* C15: in a group a plain text gets a reply only if the bot was determined
\* to be administrator there and the evaluation succeeds; otherwise nothing
\* is sent to the group. Stated for the text handlers of index.js and of
\* part_001.
C15_GroupReplyOnlyIfAdmin ==
  \A k \in TextReplies :
    IsGroup(trace[k].to)
      => (trace[k].admin = "true" /\ ~ExpectedOutcome(trace[k].about).throws)

\* The same for the handler of index.js alone.
C15_IndexJs ==
  \A k \in TextReplies :
    (IsGroup(trace[k].to) /\ trace[k].build = "index.js")
      => (trace[k].admin = "true" /\ ~ExpectedOutcome(trace[k].about).throws)

\* What a one-to-one chat is to be told about a text.
ExpectedPrivateReply(text, r) ==
  IF r.throws THEN <<"U+274C ">> \o r.message
  ELSE <<"U+1F9EE ">> \o text \o <<"\n= ">> \o r.value

\* The handlers of plain texts of one-to-one chats, by id.
PrivateTexts ==
  {trace[k].id : k \in {i \in 1..Len(trace) :
                          /\ trace[i].kind = "text"
                          /\ ~IsGroup(trace[i].chat)
                          /\ ~StartsWithSlash(trace[i].about)}}

\* C16: in a one-to-one chat every text that is no command gets exactly one
\* reply: the message of the rejection when the evaluation is rejected, the
\* result when it succeeds.
C16_PrivateAlwaysAnswered ==
  \A id \in PrivateTexts :
    /\ Cardinality({k \in TextReplies : trace[k].id = id}) = 1
    /\ \A k \in TextReplies :
         trace[k].id = id
           => /\ trace[k].to = trace[k].chat
              /\ trace[k].text = ExpectedPrivateReply(trace[k].about,
                                                     ExpectedOutcome(trace[k].about))

\* A division by zero sent in the one-to-one chat was answered with the
\* message of its rejection, and the handler has returned.
C16_Witness ==
  \E k \in TextReplies : \E m \in 1..Len(trace) :
    /\ trace[k].to = 1
    /\ trace[k].about = <<"1", "/", "0">>
    /\ trace[k].text = <<"U+274C ">> \o NonFinite
    /\ trace[m].id = trace[k].id /\ trace[m].what = "returned"

\* C18: once the administrator status of a group is in the cache (false
\* when the membership query fails), no later step queries the transport
\* for that group, and the entry changes only when the handler of a
\* departure notification removes it.
C18_CacheStable ==
  [][\A c \in AllChats :
       adminCache[c] # "absent"
         => /\ adminCache'[c] # adminCache[c]
                 => /\ adminCache'[c] = "absent"
                    /\ \E j \in jobs \ jobs' :
                         /\ j.kind = "my_chat_member" /\ j.chat = c
                         /\ j.status \in {"left", "kicked"}
            /\ Len(trace') > Len(trace)
                 => ~(/\ trace'[Len(trace')].what = "getChatMember"
                      /\ trace'[Len(trace')].to = c)]_vars

\* The part of C18 about calls that start once the entry is there: they
\* do not query the transport.
C18_NoQueryOnceCached ==
  [][\A c \in AllChats :
       (adminCache[c] # "absent" /\ Len(trace') > Len(trace))
         => ~(/\ trace'[Len(trace')].what = "getChatMember"
              /\ trace'[Len(trace')].to = c)]_vars

\* ======================================================= owner commands
OwnerOnlyText == <<"U+274C Owner only command.">>

UsageText == <<"Usage: /broadcast Your message here">>

\* A variant of the owner test that lets every sender in once an owner is
\* configured.
IsOwnerAnyone(from) == ownerId # 0

\* The negation of !OWNER_ID || ctx.from.id !== OWNER_ID
IsOwner(from) == ownerId # 0 /\ from = ownerId

\* ctx.message.text.split(" ").slice(1).join(" ").trim(): what follows the
\* first blank.
RECURSIVE AfterFirstBlank(_)
AfterFirstBlank(text) ==
  IF text = <<>> THEN <<>>
  ELSE IF Head(text) = " " THEN Tail(text)
  ELSE AfterFirstBlank(Tail(text))

BroadcastArgs(text) == Trim(AfterFirstBlank(text))

\* The message sent to every recipient.
BroadcastText(args) == <<"U+1F4E2 [BIKA Calculator Broadcast]\n\n">> \o args

\* The report of the broadcast.
ReportText(userOk, userFail, groupOk, groupFail) ==
  <<"U+2705 Broadcast finished.\n\nU+1F464 Users: ">> \o IntToText(userOk)
    \o <<" sent, ">> \o IntToText(userFail)
    \o <<" failed.\nU+1F465 Groups: ">> \o IntToText(groupOk)
    \o <<" sent, ">> \o IntToText(groupFail) \o <<" failed.">>

\* The dashboard of /admin: the counts of the collections; the uptime and
\* the list of group titles stand as one piece each. The collections hold
\* no blocked user and no inactive group, so the three counts are the
\* lengths of the two lists.
DashboardText ==
  <<"U+1F510 BIKA Calculator U+2014 Admin Dashboard\n\nU+1F464 Bot Users: ">>
    \o IntToText(Len(db.users))
    \o <<"\nU+1F465 Total Groups (all-time): ">> \o IntToText(Len(db.groups))
    \o <<"\nU+1F465 Active Groups: ">> \o IntToText(Len(db.groups))
    \o <<"\nU+23F1 Uptime: ", "formatUptime(uptimeMs)", "\n">>
    \o (IF db.groups # <<>> THEN <<"\nU+1F4DC Active Group List:", "groupList">>
        ELSE <<>>)

\* userDocs followed by groupDocs, as the two loops visit them.
Recipients ==
  [k \in 1..Len(db.users) |-> [to |-> db.users[k], group |-> FALSE]]
    \o [k \in 1..Len(db.groups) |-> [to |-> db.groups[k], group |-> TRUE]]

\* The handler goes on to its next call: the send to the next recipient,
\* or the report when none is left. before is the line about the call that
\* has just settled, if any.
Continue(j, before) ==
  IF j.todo = <<>>
    THEN /\ trace' = trace \o before \o
              <<Entry(j, "reply", j.chat,
                      ReportText(j.userOk, j.userFail, j.groupOk, j.groupFail))>>
         /\ jobs' = Without(j.id) \cup {[j EXCEPT !.pc = "reply"]}
    ELSE /\ trace' = trace \o before \o
              <<Entry(j, "sendMessage", Head(j.todo).to, BroadcastText(j.text))>>
         /\ jobs' = Without(j.id) \cup {[j EXCEPT !.pc = "send"]}

\* bot.command("broadcast") up to its first await.
Broadcast(from, c, text) ==
  LET j == [Job(events + 1, "broadcast", c) EXCEPT !.from = from,
                                                    !.text = BroadcastArgs(text)]
  IN /\ events' = events + 1
     /\ IF ~IsOwner(from) THEN Respond(j, <<OwnerOnlyText>>)
        ELSE IF j.text = <<>> THEN Respond(j, <<UsageText>>)
        ELSE /\ trace' = Append(trace, Entry(j, "find", 0, <<>>))
             /\ jobs' = jobs \cup {[j EXCEPT !.pc = "find"]}
     /\ UNCHANGED <<adminCache, member, ownerId, failures, db>>

\* bot.command("admin") up to its first await.
Admin(from, c) ==
  LET j == [Job(events + 1, "admin", c) EXCEPT !.from = from]
  IN /\ events' = events + 1
     /\ IF ~IsOwner(from) THEN Respond(j, <<OwnerOnlyText>>)
        ELSE /\ trace' = Append(trace, Entry(j, "find", 0, <<>>))
             /\ jobs' = jobs \cup {[j EXCEPT !.pc = "find"]}
     /\ UNCHANGED <<adminCache, member, ownerId, failures, db>>

\* Promise.all of the two finds resolves: the loops start.
FindResolves(j) ==
  /\ j.kind = "broadcast" /\ j.pc = "find"
  /\ Continue([j EXCEPT !.todo = Recipients], <<>>)
  /\ UNCHANGED <<events, adminCache, member, ownerId, failures, db>>

\* Promise.all of the counts of /admin resolves: the dashboard is sent.
CountsResolve(j) ==
  /\ j.kind = "admin" /\ j.pc = "find"
  /\ Respond(j, <<DashboardText>>)
  /\ UNCHANGED <<events, adminCache, member, ownerId, failures, db>>

\* A query of the collections rejects, and the handler with it.
FindRejects(j) ==
  /\ j.pc = "find"
  /\ failures < MaxFailures
  /\ failures' = failures + 1
  /\ trace' = Append(trace, Entry(j, "threw", 0, <<>>))
  /\ jobs' = Without(j.id)
  /\ UNCHANGED <<events, adminCache, member, ownerId, db>>

\* What a counter of the loops is after a send to recipient r.
Counted(j, r, ok) ==
  IF r.group
    THEN IF ok THEN [j EXCEPT !.groupOk = @ + 1] ELSE [j EXCEPT !.groupFail = @ + 1]
    ELSE IF ok THEN [j EXCEPT !.userOk = @ + 1] ELSE [j EXCEPT !.userFail = @ + 1]

\* The awaited sendMessage resolves: userOk++ or groupOk++.
SendResolves(j) ==
  /\ j.kind = "broadcast" /\ j.pc = "send"
  /\ Continue([Counted(j, Head(j.todo), TRUE) EXCEPT !.todo = Tail(@)],
              <<Entry(j, "delivered", Head(j.todo).to, <<>>)>>)
  /\ UNCHANGED <<events, adminCache, member, ownerId, failures, db>>

\* A variant of the catch block that leaves the loops.
SendRejectsStops(j) ==
  /\ j.kind = "broadcast" /\ j.pc = "send"
  /\ failures < MaxFailures
  /\ failures' = failures + 1
  /\ Continue([Counted(j, Head(j.todo), FALSE) EXCEPT !.todo = <<>>],
              <<Entry(j, "refused", Head(j.todo).to, <<>>)>>)
  /\ UNCHANGED <<events, adminCache, member, ownerId, db>>

\* The awaited sendMessage rejects: userFail++ or groupFail++ in the catch
\* block, and the loop goes on.
SendRejects(j) ==
  /\ j.kind = "broadcast" /\ j.pc = "send"
  /\ failures < MaxFailures
  /\ failures' = failures + 1
  /\ Continue([Counted(j, Head(j.todo), FALSE) EXCEPT !.todo = Tail(@)],
              <<Entry(j, "refused", Head(j.todo).to, <<>>)>>)
  /\ UNCHANGED <<events, adminCache, member, ownerId, db>>

\* The users that send the commands, the owner among them when one is
\* configured, and the texts of /broadcast.
Senders == {11, 12}

MaxCommands == 2

BroadcastTexts ==
  {<<"/broadcast">>, <<"/broadcast", " ", "h", "i">>, <<"/broadcast", " ", " ">>}

InitOwner ==
  /\ input = <<>> /\ evalPc = "idle" /\ outcome = NoOutcome
  /\ BotInit
  /\ adminCache = [c \in AllChats |-> "absent"]
  /\ member = [c \in AllChats |-> "member"]
  /\ jobs = {}
  /\ trace = <<>>
  /\ ownerId \in {0, 11}
  /\ db \in {[users |-> <<>>, groups |-> <<>>],
             [users |-> <<11, 12>>, groups |-> <<2>>]}

Command ==
  /\ events < MaxCommands
  /\ Cardinality(jobs) < MaxInFlight
  /\ \E from \in Senders : \E c \in AllChats :
       \/ \E text \in BroadcastTexts : Broadcast(from, c, text)
       \/ Admin(from, c)
  /\ UNCHANGED <<evalVars, sessionVars, sessionHistory>>

Proceed ==
  /\ \E j \in jobs :
       \/ FindResolves(j)
       \/ CountsResolve(j)
       \/ FindRejects(j)
       \/ SendResolves(j)
       \/ SendRejects(j)
       \/ ReplyResolves(j)
       \/ ReplyRejects(j)
  /\ UNCHANGED <<evalVars, sessionVars, sessionHistory, db>>

NextOwner == Command \/ Proceed

SpecOwner == InitOwner /\ [][NextOwner]_vars

\* ---------------------------------------------------------------- C17
\* The lines of the history about the handler with the given id and the
\* given kind of line.
LinesOf(id, what) == SelectSeq(trace, LAMBDA e : e.id = id /\ e.what = what)

\* How many sends of a handler settled the given way, to users or to groups.
Settled(id, what, group) ==
  Len(SelectSeq(LinesOf(id, what),
                LAMBDA e : group <=> (\E k \in 1..Len(db.groups) : db.groups[k] = e.to)))

\* The reports of the broadcasts: the replies of the handlers that queried
\* the collections.
Reports ==
  {k \in 1..Len(trace) : /\ trace[k].kind = "broadcast"
                         /\ trace[k].what = "reply"
                         /\ LinesOf(trace[k].id, "find") # <<>>}

\* C17: no recipient is sent to twice by one broadcast; once a broadcast has
\* reported, its sends went to the N recipients one after the other, once
\* each, whatever sends were refused, the counts of the report are the
\* numbers of sends that were delivered and refused, and they sum to N.
C17_BroadcastCounts ==
  /\ \A id \in 1..events : \A a, b \in 1..Len(LinesOf(id, "sendMessage")) :
        LinesOf(id, "sendMessage")[a].to = LinesOf(id, "sendMessage")[b].to => a = b
  /\ \A k \in Reports :
        LET id == trace[k].id
            sends == LinesOf(id, "sendMessage")
        IN /\ [n \in 1..Len(sends) |-> sends[n].to]
                = [n \in 1..Len(Recipients) |-> Recipients[n].to]
           /\ \A n \in 1..Len(sends) : sends[n].text = BroadcastText(trace[k].about)
           /\ trace[k].text = ReportText(Settled(id, "delivered", FALSE),
                                         Settled(id, "refused", FALSE),
                                         Settled(id, "delivered", TRUE),
                                         Settled(id, "refused", TRUE))
           /\ Settled(id, "delivered", FALSE) + Settled(id, "refused", FALSE)
                + Settled(id, "delivered", TRUE) + Settled(id, "refused", TRUE)
                = Len(Recipients)

\* A broadcast over three recipients has reported after its first send was
\* refused and a later one delivered.
C17_Witness ==
  \E k \in Reports :
    /\ Len(Recipients) = 3
    /\ LinesOf(trace[k].id, "refused") # <<>>
    /\ LinesOf(trace[k].id, "delivered") # <<>>
    /\ LinesOf(trace[k].id, "refused")[1].to = Recipients[1].to

\* ---------------------------------------------------------------- C20
\* The lines about the calls of the owner commands sent by someone who is
\* not the owner, or sent while no owner is configured.
Intruders ==
  {k \in 1..Len(trace) : /\ trace[k].kind \in {"broadcast", "admin"}
                         /\ trace[k].what \in {"find", "sendMessage", "reply"}
                         /\ (ownerId = 0 \/ trace[k].from # ownerId)}

\* C20: such a command queries nothing and sends nothing but one reply,
\* "Owner only command.", to the chat it came from.
C20_OwnerOnly ==
  \A k \in Intruders :
    /\ trace[k].what = "reply"
    /\ trace[k].text = OwnerOnlyText
    /\ trace[k].to = trace[k].chat
    /\ \A m \in Intruders : trace[m].id = trace[k].id => m = k

\* A /broadcast with a message and an /admin, both from a user who is not
\* the configured owner, have been turned away while recipients exist.
C20_Witness ==
  /\ ownerId = 11
  /\ Len(Recipients) > 0
  /\ \E k \in Intruders : /\ trace[k].kind = "broadcast"
                          /\ trace[k].from = 12
                          /\ trace[k].about # <<>>
                          /\ trace[k].text = OwnerOnlyText
  /\ \E k \in Intruders : /\ trace[k].kind = "admin"
                          /\ trace[k].from = 12
                          /\ trace[k].text = OwnerOnlyText

\* The same while no owner is configured, from the user 11.
C20_NoOwnerWitness ==
  /\ ownerId = 0
  /\ Len(Recipients) > 0
  /\ \E k \in Intruders : /\ trace[k].kind = "broadcast"
                          /\ trace[k].from = 11
                          /\ trace[k].about # <<>>
                          /\ trace[k].text = OwnerOnlyText
  /\ \E k \in Intruders : trace[k].kind = "admin" /\ trace[k].text = OwnerOnlyText

\* ---------------------------------------------------------------- C19
\* C19: no handler of a key press or of /calculator ends by a failure of a
\* send or an edit that it did not catch.
C19_NoFailureEscapes ==
  lastDone.kind \in {"callback_query", "calculator"} => ~lastDone.threw

\* The same for the owner commands: no handler that began its fan-out
\* ends by a failure.
C19_BroadcastCompletes ==
  \A k \in 1..Len(trace) :
    (trace[k].kind = "broadcast" /\ trace[k].what = "threw")
      => LinesOf(trace[k].id, "sendMessage") = <<>>

\* ======================================================= binary64 numbers
\* The fractions above are the doubles of the engine for the short texts of
\* Inputs, whose roundings the 12 decimal places hide. Below, the double
\* arithmetic of the rounding line is computed to the bit for operands of
\* any length. A natural number is the sequence of its base-10000 limbs,
\* lowest first, without high zeros; zero is << >>.
Limb == 10 ^ 4

RECURSIVE BigStrip(_)
BigStrip(a) ==
  IF a # <<>> /\ a[Len(a)] = 0 THEN BigStrip(SubSeq(a, 1, Len(a) - 1)) ELSE a

BigOne == <<1>>

RECURSIVE BigCmpFrom(_, _, _)
BigCmpFrom(a, b, k) ==
  IF k = 0 THEN 0
  ELSE IF a[k] < b[k] THEN -1
  ELSE IF a[k] > b[k] THEN 1
  ELSE BigCmpFrom(a, b, k - 1)

\* -1, 0 or 1 as a is below, equal to or above b.
BigCmp(a, b) ==
  IF Len(a) < Len(b) THEN -1
  ELSE IF Len(a) > Len(b) THEN 1
  ELSE BigCmpFrom(a, b, Len(a))

BigLimb(a, k) == IF k <= Len(a) THEN a[k] ELSE 0

RECURSIVE BigAddFrom(_, _, _, _)
BigAddFrom(a, b, k, carry) ==
  IF k > Len(a) /\ k > Len(b)
    THEN (IF carry = 0 THEN <<>> ELSE <<carry>>)
    ELSE <<(BigLimb(a, k) + BigLimb(b, k) + carry) % Limb>>
           \o BigAddFrom(a, b, k + 1, (BigLimb(a, k) + BigLimb(b, k) + carry) \div Limb)

BigAdd(a, b) == BigAddFrom(a, b, 1, 0)

RECURSIVE BigSubFrom(_, _, _, _)
BigSubFrom(a, b, k, borrow) ==
  IF k > Len(a) THEN <<>>
  ELSE <<(BigLimb(a, k) - BigLimb(b, k) - borrow + Limb) % Limb>>
         \o BigSubFrom(a, b, k + 1,
                       IF BigLimb(a, k) - BigLimb(b, k) - borrow < 0 THEN 1 ELSE 0)

\* a - b for a >= b.
BigSub(a, b) == BigStrip(BigSubFrom(a, b, 1, 0))

RECURSIVE BigTimesFrom(_, _, _, _)
BigTimesFrom(a, s, k, carry) ==
  IF k > Len(a) THEN (IF carry = 0 THEN <<>> ELSE <<carry>>)
  ELSE <<(a[k] * s + carry) % Limb>>
         \o BigTimesFrom(a, s, k + 1, (a[k] * s + carry) \div Limb)

\* a * s for a factor s below Limb.
BigTimesSmall(a, s) == IF s = 0 THEN <<>> ELSE BigTimesFrom(a, s, 1, 0)

RECURSIVE BigDivFrom(_, _, _, _)
BigDivFrom(a, s, k, carry) ==
  IF k = 0 THEN <<>>
  ELSE BigDivFrom(a, s, k - 1, (carry * Limb + a[k]) % s)
         \o <<(carry * Limb + a[k]) \div s>>

\* The floor of a / s for a divisor s below Limb.
BigDivSmall(a, s) == BigStrip(BigDivFrom(a, s, Len(a), 0))

\* A double has SignificandBits bits of significand. The powers of two are
\* applied a quarter of a significand at a time.
SignificandBits == 53

ChunkBits == SignificandBits \div 4

Chunk == 2 ^ ChunkBits

RECURSIVE Pow2(_)
Pow2(k) == IF k = 0 THEN 1 ELSE 2 * Pow2(k - 1)

\* a * 2^k
RECURSIVE BigTimesPow2(_, _)
BigTimesPow2(a, k) ==
  IF k >= ChunkBits THEN BigTimesSmall(BigTimesPow2(a, k - ChunkBits), Chunk)
  ELSE BigTimesSmall(a, Pow2(k))

\* The floor of a / 2^k
RECURSIVE BigDivPow2(_, _)
BigDivPow2(a, k) ==
  IF k >= ChunkBits THEN BigDivSmall(BigDivPow2(a, k - ChunkBits), Chunk)
  ELSE BigDivSmall(a, Pow2(k))

\* a * 10^n
RECURSIVE BigTimesPow10(_, _)
BigTimesPow10(a, n) ==
  IF a = <<>> THEN a
  ELSE IF n >= 4 THEN <<0>> \o BigTimesPow10(a, n - 4)
  ELSE BigTimesSmall(a, 10 ^ n)

\* The number written by the decimal digits ds, highest first.
RECURSIVE BigFromDigits(_)
BigFromDigits(ds) ==
  IF ds = <<>> THEN <<>>
  ELSE BigStrip(BigAdd(BigTimesSmall(BigFromDigits(SubSeq(ds, 1, Len(ds) - 1)), 10),
                       <<ds[Len(ds)]>>))

LimbDigits(x) == <<x \div 1000, (x \div 100) % 10, (x \div 10) % 10, x % 10>>

RECURSIVE BigDigitsFrom(_, _)
BigDigitsFrom(a, k) ==
  IF k = 0 THEN <<>> ELSE LimbDigits(a[k]) \o BigDigitsFrom(a, k - 1)

RECURSIVE DropZeros(_)
DropZeros(ds) == IF ds # <<>> /\ Head(ds) = 0 THEN DropZeros(Tail(ds)) ELSE ds

\* The decimal digits of a, highest first; none for zero.
BigDigits(a) == DropZeros(BigDigitsFrom(a, Len(a)))

Min(x, y) == IF x < y THEN x ELSE y

\* The greatest g with d * g <= a, searched downwards from g.
RECURSIVE QuotientLimbFrom(_, _, _)
QuotientLimbFrom(a, d, g) ==
  IF BigCmp(BigTimesSmall(d, g), a) > 0 THEN QuotientLimbFrom(a, d, g - 1) ELSE g

\* The quotient of a by d, for a < d * Limb and the highest limb of d at
\* least Limb / 2: the two highest limbs of a over the highest limb of d
\* are at most two above it.
QuotientLimb(a, d) ==
  QuotientLimbFrom(a, d,
    Min(Limb - 1,
        (BigLimb(a, Len(d) + 1) * Limb + BigLimb(a, Len(d))) \div d[Len(d)]))

\* Long division of the limbs k and below of n by d, the limbs above k
\* having left the quotient q and the remainder rem.
RECURSIVE BigDivModFrom(_, _, _, _, _)
BigDivModFrom(n, d, k, q, rem) ==
  IF k = 0 THEN [q |-> q, rem |-> rem]
  ELSE LET here == BigStrip(<<n[k]>> \o rem)
           g == QuotientLimb(here, d)
       IN IF BigCmp(here, d) < 0
            THEN BigDivModFrom(n, d, k - 1, <<0>> \o q, here)
            ELSE BigDivModFrom(n, d, k - 1, <<g>> \o q,
                               BigSub(here, BigTimesSmall(d, g)))

\* The factor that brings the highest limb of d to Limb / 2 or above.
Widening(d) == Limb \div (d[Len(d)] + 1)

BigDivModWide(r, s) == [q |-> BigStrip(r.q), rem |-> BigDivSmall(r.rem, s)]

\* The quotient and the remainder of n by d > 0.
BigDivMod(n, d) ==
  BigDivModWide(BigDivModFrom(BigTimesSmall(n, Widening(d)),
                              BigTimesSmall(d, Widening(d)),
                              Len(BigTimesSmall(n, Widening(d))), <<>>, <<>>),
                Widening(d))

\* A finite double that is not negative is [m, e], the number m * 2^e with
\* 2^52 <= m < 2^53, or m = << >> and e = 0 for zero; the doubles that are
\* not finite are F64Infinity and F64NaN. Subnormal doubles and overflow
\* lie outside the operands below.

F64Zero == [m |-> <<>>, e |-> 0]

F64Infinity == [m |-> <<>>, e |-> 1]

F64NaN == [m |-> <<>>, e |-> 2]

F64IsFinite(x) == x # F64Infinity /\ x # F64NaN

\* The fraction [n, d, e] is the number (n / d) * 2^e. It is rewritten,
\* without a change of the number, until 2^52 <= n / d < 2^53.
Lowest(f) == BigTimesPow2(f.d, SignificandBits - 1)

RECURSIVE RaiseCoarse(_)
RaiseCoarse(f) ==
  IF BigCmp(f.n, Lowest(f)) < 0
    THEN RaiseCoarse([f EXCEPT !.n = BigTimesSmall(@, Chunk), !.e = @ - ChunkBits])
    ELSE f

RECURSIVE LowerCoarse(_)
LowerCoarse(f) ==
  IF BigCmp(f.n, BigTimesSmall(Lowest(f), Chunk)) >= 0
    THEN LowerCoarse([f EXCEPT !.d = BigTimesSmall(@, Chunk), !.e = @ + ChunkBits])
    ELSE f

RECURSIVE LowerFine(_)
LowerFine(f) ==
  IF BigCmp(f.n, BigTimesSmall(Lowest(f), 2)) >= 0
    THEN LowerFine([f EXCEPT !.d = BigTimesSmall(@, 2), !.e = @ + 1])
    ELSE f

Scaled(n, d, e) == LowerFine(LowerCoarse(RaiseCoarse([n |-> n, d |-> d, e |-> e])))

IsOdd(a) == a # <<>> /\ a[1] % 2 = 1

\* Round to nearest, ties to the even significand, of the quotient r of the
\* scaled fraction f.
Nearest(f, r) ==
  LET half == BigCmp(BigTimesSmall(r.rem, 2), f.d)
      m == IF half > 0 \/ (half = 0 /\ IsOdd(r.q)) THEN BigAdd(r.q, BigOne) ELSE r.q
  IN IF BigCmp(m, BigTimesPow2(BigOne, SignificandBits)) = 0
       THEN [m |-> BigDivSmall(m, 2), e |-> f.e + 1]
       ELSE [m |-> m, e |-> f.e]

NearestOf(f) == Nearest(f, BigDivMod(f.n, f.d))

\* The double nearest to (n / d) * 2^e: what every operation of IEEE 754
\* returns for its exact result.
RoundToDouble(n, d, e) == IF n = <<>> THEN F64Zero ELSE NearestOf(Scaled(n, d, e))

\* Number.EPSILON, 2^-52, and 1e12: both are doubles.
F64Epsilon == RoundToDouble(BigOne, BigOne, 1 - SignificandBits)

F64Rounding == RoundToDouble(BigTimesPow10(BigOne, RoundDigits), BigOne, 0)

\* x / y
F64Divide(x, y) ==
  IF x = F64NaN \/ y = F64NaN THEN F64NaN
  ELSE IF x = F64Infinity THEN (IF y = F64Infinity THEN F64NaN ELSE F64Infinity)
  ELSE IF y = F64Infinity THEN F64Zero
  ELSE IF y = F64Zero THEN (IF x = F64Zero THEN F64NaN ELSE F64Infinity)
  ELSE RoundToDouble(x.m, y.m, x.e - y.e)

\* x + y: the exact sum is written on the lower of the two exponents.
F64Add(x, y) ==
  IF x = F64NaN \/ y = F64NaN THEN F64NaN
  ELSE IF x = F64Infinity \/ y = F64Infinity THEN F64Infinity
  ELSE IF x = F64Zero THEN y
  ELSE IF y = F64Zero THEN x
  ELSE IF x.e >= y.e
    THEN RoundToDouble(BigAdd(BigTimesPow2(x.m, x.e - y.e), y.m), BigOne, y.e)
    ELSE RoundToDouble(BigAdd(BigTimesPow2(y.m, y.e - x.e), x.m), BigOne, x.e)

\* a * b
RECURSIVE BigTimes(_, _)
BigTimes(a, b) ==
  IF b = <<>> \/ a = <<>> THEN <<>>
  ELSE BigStrip(BigAdd(BigTimesSmall(a, b[1]), <<0>> \o BigTimes(a, Tail(b))))

\* x * y
F64Multiply(x, y) ==
  IF x = F64NaN \/ y = F64NaN THEN F64NaN
  ELSE IF x = F64Infinity \/ y = F64Infinity
    THEN (IF x = F64Zero \/ y = F64Zero THEN F64NaN ELSE F64Infinity)
  ELSE IF x = F64Zero \/ y = F64Zero THEN F64Zero
  ELSE RoundToDouble(BigTimes(x.m, y.m), BigOne, x.e + y.e)

\* Math.round(x) of a double that is not negative: the floor of x + 1/2,
\* taken on the exact number; a double with no fraction bits is returned.
F64MathRound(x) ==
  IF ~F64IsFinite(x) \/ x = F64Zero \/ x.e >= 0 THEN x
  ELSE RoundToDouble(BigDivSmall(BigAdd(BigDivPow2(x.m, -x.e - 1), BigOne), 2),
                     BigOne, 0)

\* Math.round((result + Number.EPSILON) * 1e12) / 1e12
F64Rounded(result) ==
  F64Divide(F64MathRound(F64Multiply(F64Add(result, F64Epsilon), F64Rounding)),
            F64Rounding)

\* The integer nearest to x * 10^f, for a finite double x > 0.
Scaled10(x, f) ==
  IF x.e >= 0 THEN BigTimesPow2(BigTimesPow10(x.m, f), x.e)
  ELSE BigDivSmall(BigAdd(BigDivPow2(BigTimesPow10(x.m, f), -x.e - 1), BigOne), 2)

\* The decimal with f places nearest to x reads back as x.
ReadsBack(x, f) ==
  RoundToDouble(Scaled10(x, f), BigTimesPow10(BigOne, f), 0) = x

\* The least number of decimal places that reads back as x, for x the
\* double nearest to an integer over 1e12: RoundDigits places read back,
\* and so does every number of places above the least.
ShortestPlaces(x) == Cardinality({f \in 0..RoundDigits : ~ReadsBack(x, f)})

RECURSIVE Zeros(_)
Zeros(n) == IF n <= 0 THEN <<>> ELSE <<0>> \o Zeros(n - 1)

\* The digits of an integer split f places from the right: the digits
\* before and after the decimal point.
Split(padded, f) ==
  [int |-> SubSeq(padded, 1, Len(padded) - f),
   frac |-> SubSeq(padded, Len(padded) - f + 1, Len(padded))]

Places(ds, f) == Split(Zeros(f - Len(ds)) \o ds, f)

Decimal(x, f) == Places(BigDigits(Scaled10(x, f)), f)

PlacesText(p) ==
  IF p.int = <<>> THEN NumberToText([neg |-> FALSE, int |-> 0, frac |-> p.frac])
  ELSE DigitsText(p.int) \o (IF p.frac = <<>> THEN <<>> ELSE <<".">> \o DigitsText(p.frac))

\* Number::toString of a double made by the rounding line: the shortest
\* decimal that reads back as x; below 1e-6 it is written with an exponent,
\* as in NumberToText.
F64Text(x) ==
  IF x = F64NaN THEN <<"N","a","N">>
  ELSE IF x = F64Infinity THEN InfinityText
  ELSE IF x = F64Zero THEN <<"0">>
  ELSE PlacesText(Decimal(x, ShortestPlaces(x)))

\* ------------------------------------------ the engine on long operands
\* The pieces of s between the occurrences of c.
RECURSIVE Pieces(_, _, _)
Pieces(s, c, piece) ==
  IF s = <<>> THEN <<piece>>
  ELSE IF Head(s) = c THEN <<piece>> \o Pieces(Tail(s), c, <<>>)
  ELSE Pieces(Tail(s), c, Append(piece, Head(s)))

IsDigits(p) == p # <<>> /\ \A k \in 1..Len(p) : p[k] \in Digit

DigitVals(p) == [k \in 1..Len(p) |-> DigitVal(p[k])]

\* A number of the engine written with digits only, or with digits on both
\* sides of one decimal mark.
IsLiteral(p) ==
  LET parts == Pieces(p, ".", <<>>)
  IN Len(parts) \in {1, 2} /\ \A k \in 1..Len(parts) : IsDigits(parts[k])

\* The double the engine reads from a literal: the nearest one.
F64Literal(p) ==
  LET parts == Pieces(p, ".", <<>>)
      frac == IF Len(parts) = 2 THEN parts[2] ELSE <<>>
  IN RoundToDouble(BigFromDigits(DigitVals(parts[1] \o frac)),
                   BigTimesPow10(BigOne, Len(frac)), 0)

\* A literal, or literals divided from left to right.
IsQuotient(s) ==
  LET ps == Pieces(s, "/", <<>>) IN \A k \in 1..Len(ps) : IsLiteral(ps[k])

RECURSIVE F64Quotient(_, _)
F64Quotient(ps, k) ==
  IF k = 1 THEN F64Literal(ps[1])
  ELSE F64Divide(F64Quotient(ps, k - 1), F64Literal(ps[k]))

\* math.evaluate(s) on a quotient of literals of any length, in doubles.
\* Every other text is left to MathEvaluate.
F64Evaluate(s) == F64Quotient(Pieces(s, "/", <<>>), Len(Pieces(s, "/", <<>>)))

\* The number branch of safeEval on a double.
F64NumberBranch(x, calls) ==
  IF ~F64IsFinite(x) THEN Throw(<<"Result is not finite.">>, calls)
  ELSE Return(F64Text(F64Rounded(x)), calls)

\* safeEval(expr) for a text whose normal form is a quotient of literals.
safeEvalQuotient(expr) ==
  IF BlockedTest(Normalize(expr)) THEN Throw(<<"Unsupported expression.">>, <<>>)
  ELSE IF ~AllowedTest(Normalize(expr)) THEN Throw(<<"Invalid characters.">>, <<>>)
  ELSE F64NumberBranch(F64Evaluate(Normalize(expr)), <<Normalize(expr)>>)

\* The quotients evaluated: numerators around 2^12 * 7 over 3 and 7.
Numerators == 28670..28689

Denominators == {3, 7}

Quotients == {IntToText(a) \o <<"/">> \o IntToText(b) : a \in Numerators, b \in Denominators}

InitQuotient ==
  /\ input \in Quotients /\ evalPc = "ready" /\ outcome = NoOutcome
  /\ BotInit
  /\ HubInit

\* safeEval is called on the text.
EvaluateQuotient ==
  /\ evalPc = "ready"
  /\ evalPc' = "done"
  /\ outcome' = safeEvalQuotient(input)
  /\ UNCHANGED <<input, botVars, sessionHistory, hubVars>>

\* safeEval is called on the text it returned.
EvaluateAgain ==
  /\ evalPc = "done"
  /\ ~outcome.throws
  /\ evalPc' = "again"
  /\ input' = outcome.value
  /\ outcome' = safeEvalQuotient(outcome.value)
  /\ UNCHANGED <<botVars, sessionHistory, hubVars>>

NextQuotient == EvaluateQuotient \/ EvaluateAgain

SpecQuotient == InitQuotient /\ [][NextQuotient]_vars

\* ---------------------------------------------------------------- C21
\* C21: when safeEval has returned v, safeEval of v returns v.
C21_Idempotent ==
  evalPc = "again" => (~outcome.throws /\ outcome.value = input)

\* ---------------------------------------------------------------- C22
\* The text written with the ASCII operators and without commas, the
\* characters of dashes being the glyphs written for "-".
RECURSIVE AsciiText(_, _)
AsciiText(s, dashes) ==
  IF s = <<>> THEN <<>>
  ELSE (CASE Head(s) = MulSign -> <<"*">>
          [] Head(s) = DivSign -> <<"/">>
          [] Head(s) \in dashes -> <<"-">>
          [] Head(s) = "," -> <<>>
          [] OTHER -> <<Head(s)>>) \o AsciiText(Tail(s), dashes)

\* The same error or the same value.
SameOutcome(o, p) ==
  o.throws = p.throws /\ o.message = p.message /\ o.value = p.value

C23_NumericOnly ==
  (evalPc = "done" /\ ~outcome.throws)
    => (outcome.engine # <<>> /\ MathEvaluate(outcome.engine[1]).type = "number")

\* ---------------------------------------------------------------- C25
\* C25: an input rejected by the denylist is one the allowlist rejects as
\* well, each blocked identifier having a letter outside the allowlist, so
\* the inputs handed to the engine are those that pass the allowlist.
C25_AllowlistDecides ==
  /\ \A w \in BlockedWords : \E k \in 1..Len(w) : w[k] \notin AllowedChars
  /\ evalPc = "done" =>
       /\ BlockedTest(Normalize(input)) => ~AllowedTest(Normalize(input))
       /\ (outcome.engine # <<>>) = AllowedTest(Normalize(input))

\* An input with a blocked identifier has been rejected by the denylist.
C25_Witness ==
  /\ evalPc = "done"
  /\ BlockedTest(Normalize(input))
  /\ Rejects(Unsupported)
  /\ outcome.engine = <<>>

\* ---------------------------------------------------------------- C24
\* Every call handed to the transport settles: it resolves or it rejects.
SpecFair == Init /\ [][Next]_vars /\ WF_vars(Settle)

\* The update i is a callback query: its handler is running or has
\* finished.
IsCallback(i) ==
  /\ events = i
  /\ \/ \E t \in tasks : t.kind = "callback_query"
     \/ (tasks = {} /\ lastDone.kind = "callback_query")

\* The handler of the update i has finished.
Handled(i) == events = i /\ tasks = {}

\* Both the call of the try block and the reply of the catch block were
\* rejected.
BothRejected == lastDone.renders = 2 /\ lastDone.delivered = 0

Quiet(c) == \A t \in tasks : t.chat # c

\* C26: when the handlers of a conversation have all finished and no
\* transport call was rejected, the message the session refers to shows
\* the render of the session.
C26_FinalRenderShown ==
  \A c \in AllChats :
    (Quiet(c) /\ failures = 0 /\ state[c] # 0 /\ heap[state[c]].msgId # 0)
      => msgs[heap[state[c]].msgId].text
           = renderUI(heap[state[c]].expr, heap[state[c]].result)

\* ---------------------------------------------------------------- C27
\* Line k of the history is the end of the handler of a notification that
\* the bot left group c or was removed from it.
DepartureHandled(c, k) ==
  /\ trace[k].kind = "my_chat_member" /\ trace[k].chat = c
  /\ trace[k].what = "returned"
  /\ trace[k].status \in {"left", "kicked"}

\* A membership query for group c was sent after line k.
CheckedSince(c, k) ==
  \E m \in (k + 1)..Len(trace) :
    trace[m].what = "getChatMember" /\ trace[m].to = c

\* C27: after the handler of a departure from a group has finished, the
\* cache has no entry for the group as long as no membership check has
\* started since.
C27_NoEntryAfterDeparture ==
  \A c \in AllChats : \A k \in 1..Len(trace) :
    (DepartureHandled(c, k) /\ ~CheckedSince(c, k)) => adminCache[c] = "absent"

\* ==================================== the in-memory variant (part_000)
\* users is a Set of user ids and groups a Map keyed by chat id: db holds
\* their keys in the order of insertion, the order in which a for...of
\* loop visits them.
Holds(keys, x) == \E k \in 1..Len(keys) : keys[k] = x

\* A variant that keeps every id it is given, as an array would.
TrackedAgain(d, from, c) ==
  [users |-> Append(d.users, from),
   groups |-> IF IsGroup(c) THEN Append(d.groups, c) ELSE d.groups]

\* trackContext(ctx): users.add(ctx.from.id), and groups.set(ctx.chat.id)
\* in a group. A key that is there keeps its place.
Tracked(d, from, c) ==
  [users |-> IF Holds(d.users, from) THEN d.users ELSE Append(d.users, from),
   groups |-> IF IsGroup(c) /\ ~Holds(d.groups, c)
                THEN Append(d.groups, c) ELSE d.groups]

\* The users and the groups of d, as recipients.
RecipientsOf(d) ==
  [k \in 1..Len(d.users) |-> [to |-> d.users[k], group |-> FALSE]]
    \o [k \in 1..Len(d.groups) |-> [to |-> d.groups[k], group |-> TRUE]]

\* The keys a loop of the handler has visited: one per send that settled.
Visited(j, group) ==
  IF group THEN j.groupOk + j.groupFail ELSE j.userOk + j.userFail

\* The recipient of the send the handler awaits.
Awaited(j) ==
  IF j.pc = "groups"
    THEN [to |-> db.groups[Visited(j, TRUE) + 1], group |-> TRUE]
    ELSE [to |-> db.users[Visited(j, FALSE) + 1], group |-> FALSE]

\* The loops go on: the iterator of the Set yields the key after those it
\* has yielded if the Set holds one now, then the iterator of the Map
\* likewise; when neither does, the report is sent. before is the line
\* about the send that has just settled, if any.
Iterate(j, d, before) ==
  IF j.pc = "users" /\ Visited(j, FALSE) < Len(d.users)
    THEN /\ trace' = trace \o before \o
              <<Entry(j, "sendMessage", d.users[Visited(j, FALSE) + 1],
                      BroadcastText(j.text))>>
         /\ jobs' = Without(j.id) \cup {j}
  ELSE IF Visited(j, TRUE) < Len(d.groups)
    THEN /\ trace' = trace \o before \o
              <<Entry(j, "sendMessage", d.groups[Visited(j, TRUE) + 1],
                      BroadcastText(j.text))>>
         /\ jobs' = Without(j.id) \cup {[j EXCEPT !.pc = "groups"]}
  ELSE /\ trace' = trace \o before \o
            <<Entry(j, "reply", j.chat,
                    ReportText(j.userOk, j.userFail, j.groupOk, j.groupFail))>>
       /\ jobs' = Without(j.id) \cup {[j EXCEPT !.pc = "reply"]}

\* bot.command("broadcast") of part_000 up to its first await. todo keeps
\* the recipients tracked when the loops start; the loops do not read it.
BroadcastMemory(from, c, text) ==
  LET d == Tracked(db, from, c)
      j == [Job(events + 1, "broadcast", c)
              EXCEPT !.from = from, !.text = BroadcastArgs(text),
                     !.build = "part_000", !.todo = RecipientsOf(d)]
  IN /\ events' = events + 1
     /\ db' = d
     /\ IF ~IsOwner(from) THEN Respond(j, <<OwnerOnlyText>>)
        ELSE IF j.text = <<>> THEN Respond(j, <<UsageText>>)
        ELSE Iterate([j EXCEPT !.pc = "users"], d, <<>>)
     /\ UNCHANGED <<adminCache, member, ownerId, failures>>

CalcUsageText == <<"Usage: /calc 12*(3+4)">>

\* ctx.message.text.replace("/calc", "").trim()
CalcInput(text) == Trim(Tail(text))

\* bot.command("calc") of part_000: the sender and the chat are tracked
\* and the outcome of safeEval is sent.
CalcMemory(from, c, text) ==
  LET j == [Job(events + 1, "calc", c)
              EXCEPT !.from = from, !.text = CalcInput(text),
                     !.build = "part_000"]
  IN /\ events' = events + 1
     /\ db' = Tracked(db, from, c)
     /\ Respond(j, IF j.text = <<>> THEN <<CalcUsageText>>
                   ELSE PrivateReplies(j.text, safeEval(j.text)))
     /\ UNCHANGED <<adminCache, member, ownerId, failures>>

InLoops(j) ==
  j.kind = "broadcast" /\ j.build = "part_000" /\ j.pc \in {"users", "groups"}

\* The awaited sendMessage of a loop resolves: userOk++ or groupOk++.
MemorySendResolves(j) ==
  /\ InLoops(j)
  /\ Iterate(Counted(j, Awaited(j), TRUE), db,
             <<Entry(j, "delivered", Awaited(j).to, <<>>)>>)
  /\ UNCHANGED <<events, adminCache, member, ownerId, failures, db>>

\* The awaited sendMessage of a loop rejects: userFail++ or groupFail++.
MemorySendRejects(j) ==
  /\ InLoops(j)
  /\ failures < MaxFailures
  /\ failures' = failures + 1
  /\ Iterate(Counted(j, Awaited(j), FALSE), db,
             <<Entry(j, "refused", Awaited(j).to, <<>>)>>)
  /\ UNCHANGED <<events, adminCache, member, ownerId, db>>

\* The users that write to the bot, the owner first, and their commands.
MemorySenders == {11, 12, 13}

CalcTexts == {<<"/calc">>, <<"/calc", " ", "4", "/", "2">>}

InitMemory ==
  /\ input = <<>> /\ evalPc = "idle" /\ outcome = NoOutcome
  /\ BotInit
  /\ adminCache = [c \in AllChats |-> "absent"]
  /\ member = [c \in AllChats |-> "member"]
  /\ jobs = {}
  /\ trace = <<>>
  /\ ownerId = 11
  /\ db \in {[users |-> <<>>, groups |-> <<>>],
             [users |-> <<12, 11>>, groups |-> <<2>>]}

CommandMemory ==
  /\ events < MaxCommands
  /\ Cardinality(jobs) < MaxInFlight
  /\ \E from \in MemorySenders : \E c \in AllChats :
       \/ \E text \in BroadcastTexts : BroadcastMemory(from, c, text)
       \/ \E text \in CalcTexts : CalcMemory(from, c, text)
  /\ UNCHANGED <<evalVars, sessionVars, sessionHistory>>

ProceedMemory ==
  /\ \E j \in jobs :
       \/ MemorySendResolves(j)
       \/ MemorySendRejects(j)
       \/ ReplyResolves(j) /\ UNCHANGED db
       \/ ReplyRejects(j) /\ UNCHANGED db
  /\ UNCHANGED <<evalVars, sessionVars, sessionHistory>>

NextMemory == CommandMemory \/ ProceedMemory

SpecMemory == InitMemory /\ [][NextMemory]_vars

\* ---------------------------------------------------------------- C28
\* The handler of a broadcast has left its loops and sent the report.
Reported(j) ==
  /\ j.kind = "broadcast" /\ j.build = "part_000" /\ j.pc = "reply"
  /\ IsOwner(j.from) /\ j.text # <<>>

\* The recipients of the sends of handler id, in the order of the sends.
SentTo(id) ==
  [k \in 1..Len(LinesOf(id, "sendMessage")) |-> LinesOf(id, "sendMessage")[k].to]

\* C28 as stated: the sends of a broadcast go to the users and groups
\* tracked when it started, once each, and the counts of the report sum
\* to their number.
C28_Original ==
  \A j \in jobs :
    Reported(j) =>
      /\ SentTo(j.id) = [k \in 1..Len(j.todo) |-> j.todo[k].to]
      /\ j.userOk + j.userFail + j.groupOk + j.groupFail = Len(j.todo)

\* C28 amended: the sends of a broadcast go, once each, to the users
\* tracked when its loop over the users ended and then to the groups
\* tracked when its loop over the groups ended: those tracked when it
\* started and those registered while it awaited its sends. The counts of
\* the report are the numbers of these users and of these groups.
C28_BroadcastLive ==
  \A j \in jobs :
    Reported(j) =>
      /\ SentTo(j.id) = SubSeq(db.users, 1, Visited(j, FALSE))
                          \o SubSeq(db.groups, 1, Visited(j, TRUE))
      /\ \A k, m \in 1..Len(SentTo(j.id)) :
           SentTo(j.id)[k] = SentTo(j.id)[m] => k = m
      /\ \A k \in 1..Len(j.todo) : Holds(SentTo(j.id), j.todo[k].to)
      /\ Len(SentTo(j.id)) >= Len(j.todo)

\* A broadcast has reported more sends than it had recipients when it
\* started: a user or a group was registered while it awaited a send.
C28_Witness ==
  \E j \in jobs :
    /\ Reported(j)
    /\ Len(SentTo(j.id)) > Len(j.todo)
    /\ j.userOk + j.userFail + j.groupOk + j.groupFail = Len(SentTo(j.id))

====
